---- MODULE Spec2Model ----
(***************************************************************************)
(* Strategy Utils (src/app.js): the load pipeline of the price viewer.     *)
(*                                                                         *)
(* The page is single-threaded.  A handler (form submit, Stop click, a     *)
(* network response) runs to its next await; the promise reactions it      *)
(* leaves behind (the rejection of an aborted fetch) run as microtasks     *)
(* before the next event is dispatched.  `micro` is that microtask queue:  *)
(* while it is non-empty no other event is taken.                          *)
(*                                                                         *)
(* A load is one invocation of loadPrices; loads are numbered 1, 2, ... in *)
(* the order they start, and load l owns the AbortController l.  A dataset *)
(* is abstracted to the pair <<k, l>>: strategy k as built by load l       *)
(* (k = 0 for the single-token path, which has no entry in STRATEGIES      *)
(* order).  A time grid is abstracted to the load whose range it spans.    *)
(***************************************************************************)
EXTENDS Integers, Sequences, FiniteSets, TLC

\* ---- bounds ----
\* loadPrices invocations in one behaviour.
MaxLoads == 3
\* Entries of STRATEGIES the compare-all loop goes through.
NumStrategies == 2
\* loadPrices invocations in one behaviour of the fair specification.
MaxFairLoads == 2
\* Rows (grid points) of the load whose chart is observed.
GridRows == 3
\* Metric boxes checked at once.
MaxChecked == 2
\* Entities in the `included` array of a token response.
MaxIncluded == 3
\* 1-minute candles handed to aggregateTo10m.
MaxCandles == 3
\* Minutes after the launch up to which the fee is followed.
MaxFeeMinutes == 90
\* Largest whole fee percentage handed to breakevenMultipleFromFee.
MaxPct == 101
\* Candles in one OHLCV response handed to loadOneToken.
MaxRaw == 3
\* Rows asked for (els.rows) where the candles of the response vary.
MaxRows == 2
\* Requests issued while the rate meter is observed.
MaxCalls == 3
\* The rate meter is observed up to this time (ms).
MaxClockMs == 125000
\* Time between two events of the rate meter (ms): 20 s + 40 s is exactly the
\* window, 60.001 s is just past it.
ClockSteps == {20000, 40000, 60001}

\* No load issues more requests than this (2 per strategy, plus the launch
\* lookup); the guard only keeps the counter finite.
ReqCap == 2 * NumStrategies + 2

Loads == 1..MaxLoads
Keys == 1..NumStrategies

\* What the strategy <select> and the "At Launch" box can ask for.
Selections == {"all", "one", "oneAtLaunch", "none"}

\* Outcomes of one HTTP request, per endpoint.
TokenResults == {"pool", "nopool", "http", "net"}
LaunchResults == {"ok", "http", "net"}
OhlcvResults == {"ok", "http", "net"}

VARIABLES
    aborter,    \* the global `aborter`: 0 = null, l = load l's controller
    aborted,    \* aborted[l]: signal.aborted of load l's controller
    started,    \* number of loadPrices invocations so far
    pc,         \* pc[l]: where load l is suspended
    sel,        \* sel[l]: the selection load l read from the form
    idx,        \* idx[l]: the strategy the compare-all loop is at (0: single)
    reqCount,   \* reqCount[l]: requests load l has issued (apiRateRecord)
    net,        \* requests issued and not yet settled
    micro,      \* pending promise rejections of aborted requests
    state,      \* the global `state` (datasets, activeTableKey, chart, ...)
    els,        \* the DOM the load writes: status text, busy flag, table body,
                \* the visible table tabs and the token boxes (all checked)
    ev,         \* the event that produced the current state
    before      \* the view as it was when the latest load, if in flight, started

\* The API rate meter (API_RATE, apiRate*), on its own clock.
VARIABLES
    now,        \* Date.now(), in milliseconds
    apiRate,    \* API_RATE: calls is the array of recorded timestamps
    issued,     \* every request gtFetch has issued, by its time of issue
    rateText    \* the number apiRateRender last wrote to els.rate

\* The page after a COMPARE ALL load, with its data: the chart and its boxes.
VARIABLES
    page,       \* the global `state`: datasets (with rows), chart, active tab
    dom,        \* the checked metric and token boxes, the table body (the
                \* tab rendered and the supply and launch it was rendered
                \* with), the "At Launch" box and the strategy <select>
    pageEv,     \* the handler that produced the current page
    prefill     \* the strategies whose prefillStartFromLaunch request is out

\* One call of a pure function of the program.
VARIABLES
    call,       \* the function called and its arguments
    ret         \* its return value, once it has returned

loadVars == <<aborter, aborted, started, pc, sel, idx, reqCount, net, micro,
              state, els, ev, before>>
rateVars == <<now, apiRate, issued, rateText>>
chartVars == <<page, dom, pageEv, prefill>>
fnVars == <<call, ret>>

\* The parts of the page the load pipeline does not touch in this model.
componentVars == <<rateVars, chartVars, fnVars>>

vars == <<loadVars, componentVars>>

NoDs == <<>>

Req(l, kind, k) == [load |-> l, kind |-> kind, k |-> k]

\* An event: a form submit, a Stop click, or the continuation ("cont") of
\* load `load` resumed with result `res`.  `s` is the selection of the load
\* that acted, `k` the strategy it was at, `ended` whether the event ended it
\* and `reqs` the requests it had issued when it ended.
Ev(kind, l, res, s, k, ended, reqs) ==
    [kind |-> kind, load |-> l, res |-> res, sel |-> s, k |-> k,
     ended |-> ended, reqs |-> reqs]

\* ---- helpers translated from the source ----

SetStatus(e, t, n, b) == [e EXCEPT !.status = [msg |-> t, n |-> n], !.busy = b]

\* state.datasets[k] = ds: an existing key keeps its position, a new key is
\* appended (property order of a JS object).
RECURSIVE HasKey(_, _)
HasKey(ds, k) ==
    IF ds = <<>> THEN FALSE
    ELSE IF Head(ds)[1] = k THEN TRUE ELSE HasKey(Tail(ds), k)

PutDataset(ds, k, l) ==
    IF HasKey(ds, k)
    THEN [i \in 1..Len(ds) |-> IF ds[i][1] = k THEN <<k, l>> ELSE ds[i]]
    ELSE Append(ds, <<k, l>>)

\* err.name of what an awaited request throws: fetch rejects an aborted
\* request with an AbortError and a failed transport with a TypeError;
\* gtFetch throws a plain Error for a non-2xx response.
ErrName(res) ==
    CASE res = "abort" -> "AbortError"
      [] res = "http" -> "Error"
      [] OTHER -> "TypeError"

\* Faulty variant: a catch block that does not tell an AbortError apart.
CatchStatusAlwaysError(name) == "Error"

\* The catch block of loadPrices.
CatchStatus(name) == IF name = "AbortError" THEN "Stopped." ELSE "Error"

\* Faulty variant: both requests of a token issued at once.
TokenRequestsBoth(l, k) == {Req(l, "pools", k), Req(l, "ohlcv", k)}

\* loadOneToken up to its first await: one token+pools request.
TokenRequests(l, k) == {Req(l, "pools", k)}

\* Faulty variant: the missing-pool check left out.
HasPoolUnchecked(res) == TRUE

\* loadOneToken: `chosen?.poolAddress` of what pickMostLiquidPool returned.
HasPool(res) == res = "pool"

\* Faulty variant: a loop that never moves on to the next strategy.
NextKeySame(k) == k

\* The compare-all loop `for (const k of keys)`.
NextKey(k) == k + 1

\* buildChartDataMulti: project the checked strategies' datasets onto the
\* canonical grid.
BuildChartDataMulti(st, stratKeys) ==
    [st.chart EXCEPT
        !.rows = [t |-> "grid", l |-> st.chart.timeGrid],
        !.combined = [grid |-> st.chart.timeGrid,
                      ds |-> SelectSeq(st.datasets, LAMBDA d : d[1] \in stratKeys)]]

LoadedKeys(ds) == {ds[i][1] : i \in 1..Len(ds)}

\* The entities of a load: the datasets, the active tab, and the chart with
\* its grid and series.
View(st) == [datasets |-> st.datasets,
             activeTableKey |-> st.activeTableKey,
             chart |-> st.chart]

InitState ==
    [datasets |-> <<>>,
     activeTableKey |-> 0,
     mcapSupply |-> NoDs,
     launchTs |-> NoDs,
     chart |-> [timeGrid |-> 0,
                rows |-> [t |-> "none", l |-> 0],
                combined |-> [grid |-> 0, ds |-> <<>>],
                series |-> 0]]

\* ---- numbers ----

\* The largest int32, the range of `x | 0`.
Int32Max == 2147483647

\* A JS number holding an integer, as w * 2^31 + r with 0 <= r <= Int32Max,
\* so that values past the int32 range are kept exactly.
JsNum(x) == [w |-> 0, r |-> x]
JsAdd(a, d) ==
    IF a.r > Int32Max - d
    THEN [w |-> a.w + 1, r |-> (a.r - (Int32Max - d)) - 1]
    ELSE [w |-> a.w, r |-> a.r + d]
JsLeq(a, b) == a.w < b.w \/ (a.w = b.w /\ a.r <= b.r)

\* x | 0: ToInt32, the value modulo 2^32 read as a signed 32-bit integer.
ToInt32(a) == IF a.w % 2 = 0 THEN a.r ELSE (a.r - Int32Max) - 1

\* A value of a table cell or chart point: the number n/d, or null (d = 0).
Num(x) == [n |-> x, d |-> 1]
Null == [n |-> 0, d |-> 0]
Mul(a, b) == [n |-> a.n * b.n, d |-> a.d * b.d]

\* ---- time grid, fee schedule ----

\* createTimeGrid: for (t = startUnix; t <= endUnix + 1e-9; t += stepSec)
\* out.push(t | 0).  The arguments are integers, so the 1e-9 changes nothing.
RECURSIVE CreateTimeGridFrom(_, _, _)
CreateTimeGridFrom(t, endUnix, stepSec) ==
    IF JsLeq(t, endUnix)
    THEN <<ToInt32(t)>> \o CreateTimeGridFrom(JsAdd(t, stepSec), endUnix, stepSec)
    ELSE <<>>

CreateTimeGrid(startUnix, endUnix, stepSec) ==
    CreateTimeGridFrom(startUnix, endUnix, stepSec)

\* Faulty variant: a fee that keeps falling below the 10 % floor.
FeeFloorNone(fee) == fee

\* Math.max(10, fee)
FeeFloor(fee) == IF fee > 10 THEN fee ELSE 10

\* computeTradingFeePercentFor(launchTs, tsSec); launchTs is a value, null
\* when the launch time is unknown (not finite).
ComputeTradingFeePercentFor(launchTs, tsSec) ==
    IF launchTs.d = 0 THEN 10
    ELSE LET delta == tsSec - launchTs.n
         IN IF delta < 0 THEN 95 ELSE FeeFloor(95 - (delta \div 60))

\* A value that is not finite (NaN, Infinity): like null, it has d = 0.
NotFinite == [n |-> 1, d |-> 0]

\* Faulty variant: the multiple computed whatever the sign of the denominator.
BreakevenMultipleUnguarded(pct) ==
    IF pct.d = 0 THEN Null
    ELSE [n |-> 100 * pct.d, d |-> 100 * pct.d - pct.n]

\* breakevenMultipleFromFee(pct), pct a value: null for a pct that is null
\* or not finite and for denom = 100 - pct <= 0, else 100 / denom.
BreakevenMultipleFromFee(pct) ==
    IF pct.d = 0 THEN Null
    ELSE LET denom == [n |-> 100 * pct.d - pct.n, d |-> pct.d]
         IN IF denom.n <= 0 THEN Null
            ELSE [n |-> 100 * denom.d, d |-> denom.n]

\* ---- pool selection ----

\* A string is a sequence of characters.
Lower(ch) ==
    CASE ch = "A" -> "a" [] ch = "B" -> "b" [] ch = "C" -> "c"
      [] ch = "D" -> "d" [] ch = "E" -> "e" [] ch = "F" -> "f"
      [] ch = "X" -> "x" [] OTHER -> ch

\* Faulty variant: addresses compared as they are written.
NormAddrAsWritten(a) == a

\* normAddr: (a || "").toLowerCase()
NormAddr(a) == [i \in 1..Len(a) |-> Lower(a[i])]

\* id.includes("_") ? id.split("_")[1] : id
RECURSIVE UpToUnderscore(_)
UpToUnderscore(str) ==
    IF str = <<>> \/ Head(str) = "_" THEN <<>>
    ELSE <<Head(str)>> \o UpToUnderscore(Tail(str))
RECURSIVE AfterUnderscore(_)
AfterUnderscore(str) ==
    IF str = <<>> THEN <<>>
    ELSE IF Head(str) = "_" THEN Tail(str) ELSE AfterUnderscore(Tail(str))
AddressOfId(id) ==
    IF \E i \in 1..Len(id) : id[i] = "_"
    THEN UpToUnderscore(AfterUnderscore(id))
    ELSE id

\* Faulty variant: a comparator without the 24h-volume fallback.
PoolCmpReserveOnly(a, b) == b.reserve_in_usd - a.reserve_in_usd

\* The comparator of data.sort: reserve_in_usd descending, then 24h volume
\* descending.  A missing attribute reads as 0.
PoolCmp(a, b) ==
    IF b.reserve_in_usd # a.reserve_in_usd
    THEN b.reserve_in_usd - a.reserve_in_usd
    ELSE b.volume_h24 - a.volume_h24

\* Array.prototype.sort: a stable sort by the comparator.
RECURSIVE InsertPool(_, _)
InsertPool(sorted, x) ==
    IF sorted = <<>> THEN <<x>>
    ELSE IF PoolCmp(Head(sorted), x) <= 0
         THEN <<Head(sorted)>> \o InsertPool(Tail(sorted), x)
         ELSE <<x>> \o sorted
RECURSIVE SortPools(_)
SortPools(data) ==
    IF data = <<>> THEN <<>>
    ELSE InsertPool(SortPools(SubSeq(data, 1, Len(data) - 1)), data[Len(data)])

NoPool == [found |-> FALSE]

\* pickMostLiquidPool(tokenJson, tokenAddress); null is NoPool.
PickMostLiquidPool(tokenJson, tokenAddress) ==
    LET data == IF tokenJson.hasIncluded
                THEN SelectSeq(tokenJson.included, LAMBDA x : x.type = "pool")
                ELSE <<>>
    IN IF data = <<>> THEN NoPool
       ELSE LET pool == SortPools(data)[1]
                base == AddressOfId(pool.baseId)
                quote == AddressOfId(pool.quoteId)
            IN [found |-> TRUE,
                poolAddress |-> pool.address,
                reserveUSD |-> pool.reserve_in_usd,
                base |-> base, quote |-> quote,
                side |-> IF NormAddr(quote) = NormAddr(tokenAddress)
                         THEN "quote" ELSE "base",
                createdAtISO |-> pool.pool_created_at]

\* loadOneToken up to its second request: "No pool", or the parameters
\* fetchOHLCV sends (pool address, token=<side>).
OhlcvRequestOf(tokenJson, address) ==
    LET chosen == PickMostLiquidPool(tokenJson, address)
    IN IF ~chosen.found THEN [error |-> "No pool"]
       ELSE [error |-> "", pool |-> chosen.poolAddress,
             token |-> IF chosen.side \in {"quote", "base"} THEN chosen.side
                       ELSE ""]

\* ---- client-side 10-minute candles ----

\* The bucket width of aggregateTo10m, in seconds.
BucketSec == 600

\* Math.floor(k.ts / 600) * 600
BucketOf(ts) == (ts \div BucketSec) * BucketSec

\* Faulty variant: an update that takes the candles to arrive in time order.
UpdateBucketInOrder(b, k) ==
    [b EXCEPT !.h = IF k.h > @ THEN k.h ELSE @,
              !.l = IF k.l < @ THEN k.l ELSE @,
              !.c = k.c, !.lastTs = k.ts,
              !.v = @ + k.v]

\* The else branch of the loop: a further candle of an existing bucket.
UpdateBucket(b, k) ==
    [b EXCEPT !.h = IF k.h > @ THEN k.h ELSE @,
              !.l = IF k.l < @ THEN k.l ELSE @,
              !.o = IF k.ts < b.firstTs THEN k.o ELSE @,
              !.firstTs = IF k.ts < @ THEN k.ts ELSE @,
              !.c = IF k.ts > b.lastTs THEN k.c ELSE @,
              !.lastTs = IF k.ts > @ THEN k.ts ELSE @,
              !.v = @ + k.v]

\* One iteration: buckets is the Map, in insertion order.
AddCandle(buckets, k) ==
    IF \E i \in 1..Len(buckets) : buckets[i].ts = BucketOf(k.ts)
    THEN [i \in 1..Len(buckets) |->
            IF buckets[i].ts = BucketOf(k.ts) THEN UpdateBucket(buckets[i], k)
            ELSE buckets[i]]
    ELSE Append(buckets, [ts |-> BucketOf(k.ts), o |-> k.o, h |-> k.h,
                          l |-> k.l, c |-> k.c, v |-> k.v,
                          firstTs |-> k.ts, lastTs |-> k.ts])

RECURSIVE BucketsOf(_)
BucketsOf(oneMin) ==
    IF oneMin = <<>> THEN <<>>
    ELSE AddCandle(BucketsOf(SubSeq(oneMin, 1, Len(oneMin) - 1)),
                   oneMin[Len(oneMin)])

\* .sort((a, b) => a.ts - b.ts)
RECURSIVE InsertByTs(_, _)
InsertByTs(sorted, x) ==
    IF sorted = <<>> THEN <<x>>
    ELSE IF Head(sorted).ts <= x.ts
         THEN <<Head(sorted)>> \o InsertByTs(Tail(sorted), x)
         ELSE <<x>> \o sorted
RECURSIVE SortByTs(_)
SortByTs(q) ==
    IF q = <<>> THEN <<>>
    ELSE InsertByTs(SortByTs(SubSeq(q, 1, Len(q) - 1)), q[Len(q)])

\* aggregateTo10m(oneMin)
AggregateTo10m(oneMin) == SortByTs(BucketsOf(oneMin))

\* ---- supply for the market cap ----

\* An attribute of the token as the API sends it: absent or null, a string
\* that is no number, or a number (also one written as a string).
Absent == [t |-> "null"]
Junk == [t |-> "str"]
Numeric(x) == [t |-> "num", n |-> x]

\* A quantity: n / (d * 10^e), or null (NoQty).
Qty(n, d, e) == [n |-> n, d |-> d, e |-> e]
NoQty == [n |-> 0, d |-> 0, e |-> 0]

\* numOrNull: null for null and for what Number() does not turn into a
\* finite number.
NumOrNull(x) == IF x.t = "num" THEN Qty(x.n, 1, 0) ELSE NoQty

\* The largest decimals normalizeFromTotal accepts.
MaxDecimals == 36

\* normalizeFromTotal(totalSupplyRaw, decimals): Number(decimals || 0) is 0
\* for an absent decimals and NaN for a string that is no number.
NormalizeFromTotal(totalSupplyRaw, decimals) ==
    LET t == NumOrNull(totalSupplyRaw)
        dFinite == decimals.t # "str"
        d == IF decimals.t = "num" THEN decimals.n ELSE 0
    IN IF t = NoQty THEN NoQty
       ELSE IF ~dFinite \/ d < 0 \/ d > MaxDecimals THEN NoQty
       ELSE Qty(t.n, 1, d)

\* Faulty variant: a rule that takes any number, positive or not.
IsNumber(q) == q # NoQty

\* x != null && x > 0
IsPositive(q) == q # NoQty /\ q.n > 0

\* deriveSupplyForMcap(tokenAttrs, refPrice)
DeriveSupplyForMcap(tokenAttrs, refPrice) ==
    LET price == NumOrNull(refPrice)
        normCirc == NumOrNull(tokenAttrs.normalized_circulating_supply)
        circ == NumOrNull(tokenAttrs.circulating_supply)
        normTotal == NumOrNull(tokenAttrs.normalized_total_supply)
        normFromRaw == NormalizeFromTotal(tokenAttrs.total_supply,
                                          tokenAttrs.decimals)
        mcap == NumOrNull(tokenAttrs.market_cap_usd)
        fdv == NumOrNull(tokenAttrs.fdv_usd)
    IN IF IsPositive(normCirc) THEN normCirc
       ELSE IF IsPositive(circ) THEN circ
       ELSE IF IsPositive(normTotal) THEN normTotal
       ELSE IF IsPositive(normFromRaw) THEN normFromRaw
       ELSE IF price # NoQty /\ price.n # 0 /\ price.n > 0
            THEN IF IsPositive(mcap) THEN Qty(mcap.n, price.n, 0)
                 ELSE IF IsPositive(fdv) THEN Qty(fdv.n, price.n, 0)
                 ELSE NoQty
       ELSE NoQty

\* ---- loadOneToken ----

\* STEP_MAP: the steps of the form, with the API timeframe they are asked in.
STEP_MAP ==
    [k \in {"1m", "5m", "10m", "15m", "1h", "4h", "12h", "1d"} |->
       CASE k = "1m" -> [tf |-> "minute", agg |-> 1, sec |-> 60, client10m |-> FALSE]
         [] k = "5m" -> [tf |-> "minute", agg |-> 5, sec |-> 300, client10m |-> FALSE]
         [] k = "10m" -> [tf |-> "minute", agg |-> 1, sec |-> 600, client10m |-> TRUE]
         [] k = "15m" -> [tf |-> "minute", agg |-> 15, sec |-> 900, client10m |-> FALSE]
         [] k = "1h" -> [tf |-> "hour", agg |-> 1, sec |-> 3600, client10m |-> FALSE]
         [] k = "4h" -> [tf |-> "hour", agg |-> 4, sec |-> 14400, client10m |-> FALSE]
         [] k = "12h" -> [tf |-> "hour", agg |-> 12, sec |-> 43200, client10m |-> FALSE]
         [] k = "1d" -> [tf |-> "day", agg |-> 1, sec |-> 86400, client10m |-> FALSE]]

\* The most candles one OHLCV request may ask for.
ApiMaxLimit == 1000

\* Math.ceil(a / b) for integers a >= 0, b > 0.
CeilDiv(a, b) == (a + b - 1) \div b

Max2(a, b) == IF a > b THEN a ELSE b
Min2(a, b) == IF a < b THEN a ELSE b

\* Faulty variant: a limit that covers maxRows only, not the range.
RawLimitRowsOnly(step, maxRows, startUnix, endUnix) ==
    Min2(ApiMaxLimit, IF step.client10m THEN maxRows * 10 + 10 ELSE maxRows + 5)

\* needByRange and rawLimit of loadOneToken.
RawLimit(step, maxRows, startUnix, endUnix) ==
    LET needByRange == CeilDiv(endUnix - startUnix,
                               IF step.client10m THEN 60 ELSE step.sec)
    IN Min2(ApiMaxLimit,
            IF step.client10m THEN Max2(maxRows * 10, needByRange) + 10
            ELSE Max2(maxRows, needByRange) + 5)

\* A creation date of the API: a string Date.parse reads (as whole seconds),
\* a string it does not read (Junk), or none (Absent, "null").
IsoDate(sec) == [t |-> "date", sec |-> sec]

\* Date.parse(x || "") / 1000: NaN for what is no date.
ParseSeconds(x) == IF x.t = "date" THEN Num(x.sec) ELSE NotFinite

\* Math.min(...tsList) of a non-empty list of finite values.
RECURSIVE MinOf(_)
MinOf(q) ==
    IF Len(q) = 1 THEN q[1]
    ELSE LET m == MinOf(Tail(q)) IN IF q[1].n < m.n THEN q[1] ELSE m

\* tsList: the creation times of the pools that are finite, in order.
TsList(tokenJson) ==
    LET pools == IF tokenJson.hasIncluded
                 THEN SelectSeq(tokenJson.included, LAMBDA x : x.type = "pool")
                 ELSE <<>>
        parsed == [i \in 1..Len(pools) |-> ParseSeconds(pools[i].pool_created_at)]
    IN SelectSeq(parsed, LAMBDA x : x.d # 0)

\* Faulty variant: the launch read off the chosen pool alone.
LaunchTsOfChosenOnly(tokenJson, chosen) ==
    IF chosen.createdAtISO.t = "date" THEN ParseSeconds(chosen.createdAtISO)
    ELSE Null

\* launchTs of loadOneToken: the minimum of tsList, else the chosen pool's
\* createdAtISO when it is a non-empty string (Math.floor of its parse, NaN
\* for a string that is no date), else null.
LaunchTsOf(tokenJson, chosen) ==
    IF TsList(tokenJson) # <<>> THEN MinOf(TsList(tokenJson))
    ELSE IF chosen.createdAtISO.t # "null"
         THEN ParseSeconds(chosen.createdAtISO)
         ELSE Null

\* computeLaunchTsFromTokenJson
ComputeLaunchTsFromTokenJson(tokenJson) ==
    IF TsList(tokenJson) # <<>> THEN MinOf(TsList(tokenJson)) ELSE Null

\* Faulty variant: the last maxRows rows, those closest to endUnix.
FirstRowsLast(q, maxRows) ==
    SubSeq(q, Max2(1, Len(q) - maxRows + 1), Len(q))

\* .slice(0, maxRows)
FirstRows(q, maxRows) == SubSeq(q, 1, Min2(maxRows, Len(q)))

\* Faulty variant: candles taken in the order the API sent them.
AscAsSent(raw) == raw

\* raw.slice().sort((a, b) => a.ts - b.ts)
Asc(raw) == SortByTs(raw)

\* asc, series and rows of loadOneToken.
RowsOf(raw, step, maxRows, startUnix, endUnix) ==
    LET asc == Asc(raw)
        series == IF step.client10m THEN AggregateTo10m(asc) ELSE asc
    IN FirstRows(SelectSeq(series,
                           LAMBDA k : k.ts >= startUnix /\ k.ts <= endUnix),
                 maxRows)

\* refPrice: price_usd of the token, or the close of the last row when that
\* is null or 0 and there is a row.
RefPriceOf(tAttrs, rows) ==
    LET q == NumOrNull(tAttrs.price_usd)
    IN IF (q = NoQty \/ q.n = 0) /\ rows # <<>>
       THEN Numeric(rows[Len(rows)].c)
       ELSE tAttrs.price_usd

\* loadOneToken(c): the dataset it returns, with the OHLCV request it sent
\* (`request`), or { error: "No pool" }.
LoadOneToken(c) ==
    LET chosen == PickMostLiquidPool(c.tokenJson, c.address)
        req == OhlcvRequestOf(c.tokenJson, c.address)
        rows == RowsOf(c.raw, c.step, c.maxRows, c.startUnix, c.endUnix)
    IN IF ~chosen.found THEN req
       ELSE [error |-> "", pool |-> req.pool, token |-> req.token,
             timeframe |-> c.step.tf,
             aggregate |-> IF c.step.client10m THEN 1 ELSE c.step.agg,
             limit |-> RawLimit(c.step, c.maxRows, c.startUnix, c.endUnix),
             beforeTs |-> c.endUnix,
             launchTs |-> LaunchTsOf(c.tokenJson, chosen),
             supply |-> DeriveSupplyForMcap(c.tokenAttrs,
                                            RefPriceOf(c.tokenAttrs, rows)),
             rows |-> rows]

\* ---- chart data (COMPARE ALL) ----

\* The metric checkboxes, in document order (CHART_SERIES_DEF).
SeriesOrder == <<"open", "high", "low", "close", "volume", "mcap", "fee",
                 "breakeven", "breakeven_mc">>
DEFAULT_METRICS == <<"close", "mcap">>

\* CHART_PALETTE.length
PaletteSize == 15

\* The checked boxes of a group, in document order.
CheckedSeries(boxes) == SelectSeq(SeriesOrder, LAMBDA m : m \in boxes)
RECURSIVE KeysInOrder(_, _)
KeysInOrder(k, boxes) ==
    IF k > NumStrategies THEN <<>>
    ELSE (IF k \in boxes THEN <<k>> ELSE <<>>) \o KeysInOrder(k + 1, boxes)

\* getCheckedSeriesKeys, getMetricKeysOrDefault, getCheckedStrategyKeys
GetCheckedSeriesKeys(c) == CheckedSeries(c.series)
GetMetricKeysOrDefault(c) ==
    IF GetCheckedSeriesKeys(c) # <<>> THEN GetCheckedSeriesKeys(c)
    ELSE DEFAULT_METRICS
GetCheckedStrategyKeys(c) == KeysInOrder(1, c.strats)

\* Faulty variant: a lookup that falls back on the latest earlier row.
RowsAtOrBefore(rows, ts) ==
    LET at == SelectSeq(rows, LAMBDA r : r.ts = ts)
    IN IF at # <<>> THEN at ELSE SelectSeq(rows, LAMBDA r : r.ts < ts)

\* byTs.get(ts): the rows with that timestamp; the Map keeps the last one.
RowsAt(rows, ts) == SelectSeq(rows, LAMBDA r : r.ts = ts)

\* The switch over the metric, for the row r of dataset ds at grid time ts.
MetricValue(ser, r, ds, ts) ==
    LET fee == ComputeTradingFeePercentFor(ds.launchTs, ts)
        mult == BreakevenMultipleFromFee(Num(fee))
        hasMcap == ds.supply # Null /\ r.c # Null
    IN CASE ser = "open" -> r.o
         [] ser = "high" -> r.h
         [] ser = "low" -> r.l
         [] ser = "close" -> r.c
         [] ser = "volume" -> r.v
         [] ser = "mcap" -> IF hasMcap THEN Mul(r.c, ds.supply) ELSE Null
         [] ser = "fee" -> Num(fee)
         [] ser = "breakeven" -> IF ds.launchTs.d # 0 THEN mult ELSE Null
         [] ser = "breakeven_mc" ->
                IF ds.launchTs.d # 0 /\ hasMcap /\ mult # Null
                THEN Mul(mult, Mul(r.c, ds.supply)) ELSE Null
         [] OTHER -> Null

\* One projected array: for each grid point the metric of the row found
\* there, null where there is none (or the value is null or not finite).
Project(ds, ser, grid) ==
    [i \in 1..Len(grid) |->
        LET found == RowsAt(ds.rows, grid[i])
            val == IF found = <<>> THEN Null
                   ELSE MetricValue(ser, found[Len(found)], ds, grid[i])
        IN IF val.d = 0 THEN Null ELSE val]

\* The keys "<strategy>:<series>" pushed by the two nested loops.
RECURSIVE CombinedKeysOf(_, _, _)
CombinedKeysOf(dsMap, seriesKeys, stratKeys) ==
    IF stratKeys = <<>> THEN <<>>
    ELSE (IF Head(stratKeys) \in DOMAIN dsMap
          THEN [j \in 1..Len(seriesKeys) |-> <<Head(stratKeys), seriesKeys[j]>>]
          ELSE <<>>)
         \o CombinedKeysOf(dsMap, seriesKeys, Tail(stratKeys))

\* Faulty variant: keys pushed onto the array of the previous build.
ChartKeysAppended(st, seriesKeys, stratKeys) ==
    st.chart.combinedKeys \o CombinedKeysOf(st.datasets, seriesKeys, stratKeys)

\* const combinedKeys = [] and the pushes of one build.
ChartKeys(st, seriesKeys, stratKeys) ==
    CombinedKeysOf(st.datasets, seriesKeys, stratKeys)

\* buildChartDataMulti(seriesKeys, stratKeys) on the global state st.
ChartDataMulti(st, seriesKeys, stratKeys) ==
    LET grid == st.chart.timeGrid
        pos(k) == CHOOSE i \in 1..Len(stratKeys) : stratKeys[i] = k
        colors == [k \in DOMAIN st.chart.strategyColors |->
                     IF st.chart.strategyColors[k] = 0
                        /\ \E i \in 1..Len(stratKeys) : stratKeys[i] = k
                     THEN ((pos(k) - 1) % PaletteSize) + 1
                     ELSE st.chart.strategyColors[k]]
        keys == ChartKeys(st, seriesKeys, stratKeys)
        keySet == {keys[i] : i \in 1..Len(keys)}
    IN [st EXCEPT
          !.chart.strategyColors = colors,
          !.chart.strokeStyles = [key \in keySet |-> colors[key[1]]],
          !.chart.rows = grid,
          !.chart.seriesCombined =
              [key \in keySet |-> Project(st.datasets[key[1]], key[2], grid)],
          !.chart.combinedKeys = keys]

\* ---- chart data (single token) and table rows ----

\* computeTradingFeePercent(tsSec): the schedule on state.launchTs.
ComputeTradingFeePercent(st, tsSec) ==
    ComputeTradingFeePercentFor(st.launchTs, tsSec)

\* The derived columns of a row, as renderRows and buildChartData compute
\* them from state.mcapSupply and state.launchTs.
RowCalc(st, r) ==
    LET mcap == IF st.mcapSupply # Null /\ r.c # Null
                THEN Mul(r.c, st.mcapSupply) ELSE Null
        feePct == ComputeTradingFeePercent(st, r.ts)
        bMultiple == BreakevenMultipleFromFee(Num(feePct))
    IN [mcap |-> mcap, feePct |-> Num(feePct), bMultiple |-> bMultiple,
        bMC |-> IF bMultiple # Null /\ mcap # Null
                THEN Mul(bMultiple, mcap) ELSE Null]

\* The switch of buildChartData: the value of metric k for row r.
SingleMetric(st, k, r) ==
    CASE k = "open" -> r.o
      [] k = "high" -> r.h
      [] k = "low" -> r.l
      [] k = "close" -> r.c
      [] k = "volume" -> r.v
      [] k = "mcap" -> RowCalc(st, r).mcap
      [] k = "fee" -> RowCalc(st, r).feePct
      [] k = "breakeven" -> RowCalc(st, r).bMultiple
      [] k = "breakeven_mc" -> RowCalc(st, r).bMC
      [] OTHER -> Null

\* buildChartData(rows): state.chart.series, an array per key of seriesKeys.
BuildChartData(st, rows) ==
    [k \in {st.chart.seriesKeys[i] : i \in 1..Len(st.chart.seriesKeys)} |->
        [i \in 1..Len(rows) |-> SingleMetric(st, k, rows[i])]]

\* The single-token path of loadPrices for the dataset ds: supply and launch
\* set, then the chart built from its rows for the metrics keys.
SingleTokenSeries(st, ds, keys) ==
    BuildChartData([st EXCEPT !.mcapSupply = ds.supply,
                              !.launchTs = ds.launchTs,
                              !.chart.seriesKeys = keys],
                   ds.rows)

\* ---- the API rate meter ----

\* The rolling window of apiRatePrune: 60_000 ms.
RateWindowMs == 60000

\* Faulty variant: a prune that drops at most one entry per read.
ApiRatePruneOnce(calls, t) ==
    IF calls # <<>> /\ Head(calls) < t - RateWindowMs THEN Tail(calls) ELSE calls

\* apiRatePrune at time t: shift entries off the front while they are older
\* than the cutoff.
RECURSIVE ApiRatePrune(_, _)
ApiRatePrune(calls, t) ==
    IF calls # <<>> /\ Head(calls) < t - RateWindowMs
    THEN ApiRatePrune(Tail(calls), t)
    ELSE calls

\* apiRateRender: prune, then show the length.
ApiRateRender ==
    /\ apiRate' = [apiRate EXCEPT !.calls = ApiRatePrune(apiRate.calls, now)]
    /\ rateText' = Len(apiRate'.calls)

RateInit ==
    /\ now = 0
    /\ apiRate = [limit |-> 30, calls |-> <<>>]
    /\ issued = <<>>
    /\ rateText = 0

\* Before any load: no datasets, an empty chart.
NoPage ==
    [datasets |-> <<>>, activeTableKey |-> 0, mcapSupply |-> Null,
     launchTs |-> Null,
     chart |-> [timeGrid |-> <<>>, rows |-> <<>>, seriesKeys |-> DEFAULT_METRICS,
                combinedKeys |-> <<>>, seriesCombined |-> <<>>,
                strokeStyles |-> <<>>,
                strategyColors |-> [k \in Keys |-> 0]]]

\* renderRows: the supply and the launch time the derived columns of the
\* table are computed with.
RenderedWith(st) == [supply |-> st.mcapSupply, launchTs |-> st.launchTs]

ChartIdle ==
    /\ page = NoPage
    /\ dom = [series |-> {}, strats |-> {}, tbody |-> 0,
              calc |-> RenderedWith(NoPage),
              startAtLaunch |-> FALSE, strategy |-> 0]
    /\ pageEv = [kind |-> "none"]
    /\ prefill = {}

NoCall == [fn |-> "none"]
Pending == [done |-> FALSE]
Returned(v) == [done |-> TRUE, val |-> v]

FnIdle == call = NoCall /\ ret = Pending

ComponentsIdle == RateInit /\ ChartIdle /\ FnIdle

\* ---- initial state ----

LoadIdle ==
    /\ aborter = 0
    /\ aborted = [l \in Loads |-> FALSE]
    /\ started = 0
    /\ pc = [l \in Loads |-> "idle"]
    /\ sel = [l \in Loads |-> "none"]
    /\ idx = [l \in Loads |-> 0]
    /\ reqCount = [l \in Loads |-> 0]
    /\ net = {}
    /\ micro = <<>>
    /\ state = InitState
    /\ els = [status |-> [msg |-> "Ready.", n |-> 0], busy |-> FALSE, tbody |-> NoDs,
              tabs |-> {}, boxes |-> {}]
    /\ ev = Ev("init", 0, "", "none", 0, FALSE, 0)
    /\ before = View(InitState)

Init == LoadIdle /\ ComponentsIdle

\* ---- loadPrices ----

InFlight(l) == pc[l] \in {"launch", "pools", "ohlcv"}

\* AbortController.abort(): the signal becomes aborted and every request
\* still pending on it rejects with an AbortError; the awaiting load resumes
\* in a microtask.
AbortedSignals(a) == IF a = 0 THEN aborted ELSE [aborted EXCEPT ![a] = TRUE]
RejectedBy(a) == {r \in net : r.load = a /\ ~aborted[a]}

RECURSIVE SetToSeq(_)
SetToSeq(S) ==
    IF S = {} THEN <<>>
    ELSE LET r == CHOOSE x \in S : TRUE IN <<r>> \o SetToSeq(S \ {r})

\* Load l suspends at an await: it is at p, in strategy k, having handed the
\* requests reqs to gtFetch (which counts each one, apiRateRecord, and passes
\* it to fetch).  e is the event, pending the requests still outstanding.
Await(l, e, p, k, reqs, pending) ==
    /\ pc' = [pc EXCEPT ![l] = p]
    /\ idx' = [idx EXCEPT ![l] = k]
    /\ sel' = [sel EXCEPT ![l] = e.sel]
    /\ net' = pending \cup reqs
    /\ reqCount' = [reqCount EXCEPT ![l] = @ + Cardinality(reqs)]
    /\ ev' = e
    /\ before' = IF e.kind = "submit" THEN View(state) ELSE before

\* Load l returns or throws out of loadPrices: `finally { aborter = null }`
\* runs, and the invocation's locals (and its controller) are gone.
Return(l, e, pending) ==
    /\ pc' = [pc EXCEPT ![l] = "done"]
    /\ idx' = [idx EXCEPT ![l] = 0]
    /\ sel' = [sel EXCEPT ![l] = "none"]
    /\ net' = pending
    /\ reqCount' = [reqCount EXCEPT ![l] = 0]
    /\ aborter' = 0
    /\ ev' = [e EXCEPT !.ended = TRUE, !.reqs = reqCount[l]]
    /\ before' = IF l = started \/ e.kind = "submit" THEN View(InitState) ELSE before

\* The single-token path from `const contract = getSelectedContract()` to the
\* await inside loadOneToken.
StartSingle(l, e, pending) ==
    /\ state' = [state EXCEPT !.datasets = <<>>, !.activeTableKey = 0]
    /\ els' = SetStatus(els, "Loading", 0, TRUE)
    /\ Await(l, e, "pools", 0, TokenRequests(l, 0), pending)

\* loadPrices from its first line to its first await (or to its return when
\* no strategy is selected).  The form's submit event is taken whenever it is
\* dispatched: loadPrices itself provides for a load still being in flight.
Submit(s) ==
    /\ UNCHANGED componentVars
    /\ micro = <<>>
    /\ started < MaxLoads
    /\ LET l == started + 1
           pending == net \ RejectedBy(aborter)
           e == Ev("submit", l, "", s, 0, FALSE, 0)
       IN
        /\ started' = l
        /\ aborted' = AbortedSignals(aborter)
        /\ micro' = SetToSeq(RejectedBy(aborter))
        /\ CASE s = "oneAtLaunch" ->
                  /\ aborter' = l
                  /\ els' = SetStatus(els, "Finding launch", 0, TRUE)
                  /\ Await(l, e, "launch", 0, {Req(l, "launch", 0)}, pending)
                  /\ UNCHANGED state
             [] s = "all" ->
                  /\ aborter' = l
                  /\ state' = [state EXCEPT !.datasets = <<>>]
                  /\ els' = SetStatus(els, "Loading k", 1, TRUE)
                  /\ Await(l, [e EXCEPT !.k = 1], "pools", 1, TokenRequests(l, 1), pending)
             [] s = "one" ->
                  /\ aborter' = l
                  /\ StartSingle(l, e, pending)
             [] OTHER ->
                  /\ els' = SetStatus(els, "Please select a strategy.", 0, FALSE)
                  /\ Return(l, e, pending)
                  /\ UNCHANGED state

\* The Stop button's click listener.  A disabled button dispatches no click,
\* and setStatus disables Stop whenever busy is false.
StopClick ==
    /\ UNCHANGED componentVars
    /\ micro = <<>>
    /\ els.busy
    /\ aborted' = AbortedSignals(aborter)
    /\ micro' = SetToSeq(RejectedBy(aborter))
    /\ net' = net \ RejectedBy(aborter)
    /\ ev' = Ev("stop", 0, "", "none", 0, FALSE, 0)
    /\ UNCHANGED <<aborter, started, pc, sel, idx, reqCount, state, els, before>>

\* catch (err) { ... } finally { aborter = null }
Catch(l, e, pending) ==
    /\ els' = SetStatus(els, CatchStatus(ErrName(e.res)), 0, FALSE)
    /\ Return(l, e, pending)
    /\ aborted' = [aborted EXCEPT ![l] = FALSE]
    /\ UNCHANGED <<started, state>>

\* The rejection of an aborted request reaches the load awaiting it.
AbortRejected ==
    /\ UNCHANGED componentVars
    /\ micro # <<>>
    /\ LET r == Head(micro)
           l == r.load
       IN
        /\ micro' = Tail(micro)
        /\ IF InFlight(l)
           THEN Catch(l, Ev("cont", l, "abort", sel[l], idx[l], FALSE, 0), net)
           ELSE /\ ev' = Ev("cont", l, "abort", sel[l], idx[l], FALSE, 0)
                /\ UNCHANGED <<aborter, aborted, started, pc, sel, idx, reqCount,
                               net, state, els, before>>

\* A response (or a transport failure) reaches the load awaiting request r.
Settles(r) ==
    /\ micro = <<>>
    /\ r \in net
    /\ reqCount[r.load] < ReqCap

\* loadPrices, "At Launch" with one strategy selected: the launch lookup
\* returns and the single-token path goes on to loadOneToken.
LaunchResolved(l, res) ==
    /\ UNCHANGED componentVars
    /\ pc[l] = "launch"
    /\ Settles(Req(l, "launch", 0))
    /\ UNCHANGED micro
    /\ LET pending == net \ {Req(l, "launch", 0)}
           e == Ev("cont", l, res, sel[l], idx[l], FALSE, 0)
       IN IF res = "ok"
          THEN /\ StartSingle(l, e, pending)
               /\ UNCHANGED <<aborter, aborted, started>>
          ELSE Catch(l, e, pending)

\* The end of the compare-all loop body for strategy idx[l], with ds the
\* datasets after it: either the next strategy's loadOneToken starts, or the
\* loop is over and the view is built.
AdvanceLoop(l, e, ds, pending) ==
    IF idx[l] < NumStrategies
    THEN /\ state' = [state EXCEPT !.datasets = ds]
         /\ els' = SetStatus(els, "Loading k", NextKey(idx[l]), TRUE)
         /\ Await(l, e, "pools", NextKey(idx[l]),
                  TokenRequests(l, NextKey(idx[l])), pending)
         /\ UNCHANGED <<aborter, aborted, started>>
    ELSE /\ Return(l, e, pending)
         /\ aborted' = [aborted EXCEPT ![l] = FALSE]
         /\ UNCHANGED started
         /\ IF ds = <<>>
            THEN /\ state' = [state EXCEPT !.datasets = ds]
                 /\ els' = SetStatus(els, "No data for any strategy.", 0, FALSE)
            ELSE LET first == ds[1]
                     st1 == [state EXCEPT
                                !.datasets = ds,
                                !.chart.timeGrid = l,
                                !.chart.rows = [t |-> "grid", l |-> l],
                                !.activeTableKey = first[1],
                                !.mcapSupply = first,
                                !.launchTs = first]
                 IN /\ state' = [st1 EXCEPT
                                    !.chart = BuildChartDataMulti(st1, LoadedKeys(ds))]
                    /\ els' = SetStatus([els EXCEPT !.tbody = first,
                                                    !.tabs = LoadedKeys(ds),
                                                    !.boxes = LoadedKeys(ds)],
                                        "Done tokens", Len(ds), FALSE)

\* loadOneToken resumes with the token+pools response.
PoolsResolved(l, res) ==
    /\ UNCHANGED componentVars
    /\ pc[l] = "pools"
    /\ Settles(Req(l, "pools", idx[l]))
    /\ UNCHANGED micro
    /\ LET pending == net \ {Req(l, "pools", idx[l])}
           e == Ev("cont", l, res, sel[l], idx[l], FALSE, 0)
       IN
       CASE res \in {"http", "net"} -> Catch(l, e, pending)
         [] res \notin {"http", "net"} /\ HasPool(res) ->
              /\ Await(l, e, "ohlcv", idx[l], {Req(l, "ohlcv", idx[l])}, pending)
              /\ UNCHANGED <<aborter, aborted, started, state, els>>
         [] OTHER ->
              IF sel[l] = "all"
              THEN AdvanceLoop(l, e, state.datasets, pending)
              ELSE /\ els' = SetStatus(els, "No pool found for this token.", 0, FALSE)
                   /\ Return(l, e, pending)
                   /\ aborted' = [aborted EXCEPT ![l] = FALSE]
                   /\ UNCHANGED <<started, state>>

\* loadOneToken resumes with the candles and returns the dataset.
OhlcvResolved(l, res) ==
    /\ UNCHANGED componentVars
    /\ pc[l] = "ohlcv"
    /\ Settles(Req(l, "ohlcv", idx[l]))
    /\ UNCHANGED micro
    /\ LET pending == net \ {Req(l, "ohlcv", idx[l])}
           e == Ev("cont", l, res, sel[l], idx[l], FALSE, 0)
       IN
       IF res = "ok"
       THEN IF sel[l] = "all"
            THEN AdvanceLoop(l, e, PutDataset(state.datasets, idx[l], l), pending)
            ELSE /\ state' = [state EXCEPT
                                !.mcapSupply = <<0, l>>,
                                !.launchTs = <<0, l>>,
                                !.chart.timeGrid = 0,
                                !.chart.rows = [t |-> "rows", l |-> l],
                                !.chart.series = l]
                 /\ els' = SetStatus([els EXCEPT !.tbody = <<0, l>>,
                                                 !.tabs = {}],
                                     "Done rows", 0, FALSE)
                 /\ Return(l, e, pending)
                 /\ aborted' = [aborted EXCEPT ![l] = FALSE]
                 /\ UNCHANGED started
       ELSE Catch(l, e, pending)

Next ==
    \/ \E s \in Selections : Submit(s)
    \/ StopClick
    \/ AbortRejected
    \/ \E l \in Loads, res \in LaunchResults : LaunchResolved(l, res)
    \/ \E l \in Loads, res \in TokenResults : PoolsResolved(l, res)
    \/ \E l \in Loads, res \in OhlcvResults : OhlcvResolved(l, res)

Spec == Init /\ [][Next]_vars

\* Every issued fetch eventually resolves or rejects, and a queued promise
\* reaction always runs.
Resolve(l) ==
    \/ \E res \in LaunchResults : LaunchResolved(l, res)
    \/ \E res \in TokenResults : PoolsResolved(l, res)
    \/ \E res \in OhlcvResults : OhlcvResolved(l, res)

FairSubmit(s) == Submit(s) /\ started' <= MaxFairLoads

FairNext ==
    \/ \E s \in Selections : FairSubmit(s)
    \/ StopClick
    \/ AbortRejected
    \/ \E l \in Loads : Resolve(l)

FairSpec ==
    /\ Init
    /\ [][FairNext]_vars
    /\ WF_vars(AbortRejected)
    /\ \A l \in Loads : WF_vars(Resolve(l))

\* ---- the view while loads run: tab clicks and metric toggles ----

\* The dataset of key k in state.datasets.
DatasetOf(ds, k) == ds[CHOOSE i \in 1..Len(ds) : ds[i][1] = k]

\* els.chartControls.onchange: rebuildChartFromControls.  With datasets
\* loaded (isAllMode) the chart is built by buildChartDataMulti from the
\* checked token boxes, else by buildChartData from state.chart.rows.
MetricToggle ==
    /\ UNCHANGED componentVars
    /\ micro = <<>>
    /\ state' = IF state.datasets # <<>>
                THEN [state EXCEPT !.chart = BuildChartDataMulti(state, els.boxes)]
                ELSE [state EXCEPT !.chart.series = state.chart.rows.l]
    /\ ev' = Ev("toggle", 0, "", "none", 0, FALSE, 0)
    /\ UNCHANGED <<aborter, aborted, started, pc, sel, idx, reqCount, net,
                   micro, els, before>>

\* The click on the visible table tab of key k: switchTableTab(k).
TabClick(k) ==
    /\ UNCHANGED componentVars
    /\ micro = <<>>
    /\ k \in els.tabs
    /\ IF HasKey(state.datasets, k)
       THEN LET ds == DatasetOf(state.datasets, k)
                st1 == [state EXCEPT !.activeTableKey = k,
                                     !.mcapSupply = ds,
                                     !.launchTs = ds]
            IN /\ state' = [st1 EXCEPT
                               !.chart = BuildChartDataMulti(st1, els.boxes)]
               /\ els' = [els EXCEPT !.tbody = ds]
       ELSE /\ state' = [state EXCEPT !.activeTableKey = k]
            /\ UNCHANGED els
    /\ ev' = Ev("tab", 0, "", "none", k, FALSE, 0)
    /\ UNCHANGED <<aborter, aborted, started, pc, sel, idx, reqCount, net,
                   micro, before>>

ViewNext ==
    \/ Next
    \/ MetricToggle
    \/ \E k \in Keys : TabClick(k)

ViewSpec == Init /\ [][ViewNext]_vars

\* ---- the API rate meter: its specification ----

\* gtFetch: apiRateRecord(1) pushes Date.now() and renders; the request is
\* then issued, whatever becomes of it.
GtFetch ==
    /\ Len(issued) < MaxCalls
    /\ issued' = Append(issued, now)
    /\ apiRate' = [apiRate EXCEPT
                      !.calls = ApiRatePrune(Append(apiRate.calls, now), now)]
    /\ rateText' = Len(apiRate'.calls)
    /\ UNCHANGED <<now, loadVars, chartVars, fnVars>>

\* The one-second interval timer (apiRateInit), or any other read.
RateTick ==
    /\ ApiRateRender
    /\ UNCHANGED <<now, issued, loadVars, chartVars, fnVars>>

\* Time passes between two events.
ClockAdvance(d) ==
    /\ now + d <= MaxClockMs
    /\ now' = now + d
    /\ UNCHANGED <<apiRate, issued, rateText, loadVars, chartVars, fnVars>>

RateNext ==
    \/ GtFetch
    \/ RateTick
    \/ \E d \in ClockSteps : ClockAdvance(d)

RateSpec == Init /\ [][RateNext]_vars

\* ---- the chart of a COMPARE ALL load: its specification ----

\* A candle with close c; a candle of an empty interval has a null close.
Candle(ts, c) ==
    [ts |-> ts, o |-> Num(c - 1), h |-> Num(c + 1), l |-> Num(c - 2),
     c |-> Num(c), v |-> Num(ts \div 1000)]
EmptyCandle(ts) ==
    [ts |-> ts, o |-> Null, h |-> Null, l |-> Null, c |-> Null, v |-> Num(0)]

\* The range of the load: maxRows rows of one hour from startUnix.
ChartStart == 1000
ChartStep == 3600
ChartGrid ==
    CreateTimeGrid(JsNum(ChartStart),
                   JsNum(ChartStart + (GridRows - 1) * ChartStep), ChartStep)

\* What loadOneToken can have returned for a strategy: a row missing at the
\* end of the grid; an off-grid row, an empty candle, supply and launch
\* unknown; a row on every grid point, launched after the first of them.
DatasetChoices ==
    << [rows |-> <<Candle(ChartStart, 10), Candle(ChartStart + ChartStep, 12)>>,
       supply |-> Num(2), launchTs |-> Num(ChartStart)],
      [rows |-> <<Candle(ChartStart, 7), Candle(ChartStart + 1800, 8),
                  EmptyCandle(ChartStart + 2 * ChartStep)>>,
       supply |-> Null, launchTs |-> Null],
      [rows |-> [i \in 1..Len(ChartGrid) |-> Candle(ChartGrid[i], 20 + i)],
       supply |-> Num(3), launchTs |-> Num(ChartStart + ChartStep)] >>

\* rebuildChartFromControls, with datasets loaded (isAllMode).
RebuildChartFromControls(st, c) ==
    ChartDataMulti([st EXCEPT !.chart.seriesKeys = GetMetricKeysOrDefault(c)],
                   GetMetricKeysOrDefault(c), GetCheckedStrategyKeys(c))

\* Faulty variant: a tab switch that falls back to the default metrics.
TabSeriesKeysOrDefault(c) == GetMetricKeysOrDefault(c)

\* The metric keys switchTableTab hands to buildChartDataMulti.
TabSeriesKeys(c) == GetCheckedSeriesKeys(c)

\* The end of loadPrices in COMPARE ALL: datasets ds loaded on the grid,
\* first tab active, every token box checked, chart built.
LoadedPage(ds, c) ==
    LET first == CHOOSE k \in DOMAIN ds : \A j \in DOMAIN ds : k <= j
        st == [NoPage EXCEPT !.datasets = ds,
                             !.chart.timeGrid = ChartGrid,
                             !.chart.rows = ChartGrid,
                             !.activeTableKey = first,
                             !.mcapSupply = ds[first].supply,
                             !.launchTs = ds[first].launchTs,
                             !.chart.seriesKeys = GetMetricKeysOrDefault(c)]
    IN ChartDataMulti(st, GetMetricKeysOrDefault(c), GetCheckedStrategyKeys(c))

ChartInit ==
    \E loaded \in SUBSET Keys \ {{}}, turn \in 1..Len(DatasetChoices) :
      LET ds == [k \in loaded |->
                   DatasetChoices[((k + turn) % Len(DatasetChoices)) + 1]]
      IN
        \E boxes \in SUBSET {SeriesOrder[i] : i \in 1..Len(SeriesOrder)} :
          /\ Cardinality(boxes) <= MaxChecked
          /\ page = LoadedPage(ds, [series |-> boxes, strats |-> loaded])
          /\ dom = [series |-> boxes, strats |-> loaded,
                    tbody |-> page.activeTableKey,
                    calc |-> RenderedWith(page),
                    startAtLaunch |-> FALSE, strategy |-> 0]
          /\ pageEv = [kind |-> "load"]
          /\ prefill = {}

\* A metric box is checked or unchecked (els.chartControls.onchange).
ToggleSeries(m) ==
    /\ m \in dom.series \/ Cardinality(dom.series) < MaxChecked
    /\ dom' = [dom EXCEPT !.series = IF m \in @ THEN @ \ {m} ELSE @ \cup {m}]
    /\ page' = RebuildChartFromControls(page, dom')
    /\ pageEv' = [kind |-> "series"]
    /\ UNCHANGED <<prefill, loadVars, rateVars, fnVars>>

\* A token box is checked or unchecked (chart-strategy-controls onchange).
ToggleStrategy(k) ==
    /\ k \in DOMAIN page.datasets
    /\ dom' = [dom EXCEPT !.strats = IF k \in @ THEN @ \ {k} ELSE @ \cup {k}]
    /\ page' = RebuildChartFromControls(page, dom')
    /\ pageEv' = [kind |-> "strat"]
    /\ UNCHANGED <<prefill, loadVars, rateVars, fnVars>>

\* switchTableTab(key), from the click on a table tab.
SwitchTableTab(key) ==
    /\ key \in DOMAIN page.datasets
    /\ dom' = [dom EXCEPT
                 !.tbody = key,
                 !.calc = RenderedWith(
                     [page EXCEPT !.mcapSupply = page.datasets[key].supply,
                                  !.launchTs = page.datasets[key].launchTs])]
    /\ page' = ChartDataMulti(
                  [page EXCEPT !.activeTableKey = key,
                               !.mcapSupply = page.datasets[key].supply,
                               !.launchTs = page.datasets[key].launchTs],
                  TabSeriesKeys(dom), GetCheckedStrategyKeys(dom))
    /\ pageEv' = [kind |-> "tab"]
    /\ UNCHANGED <<prefill, loadVars, rateVars, fnVars>>

ChartNext ==
    \/ \E m \in {SeriesOrder[i] : i \in 1..Len(SeriesOrder)} :
          ToggleSeries(m)
    \/ \E k \in Keys : ToggleStrategy(k)
    \/ \E k \in Keys : SwitchTableTab(k)

ChartSpecInit == LoadIdle /\ RateInit /\ ChartInit /\ FnIdle

ChartSpec == ChartSpecInit /\ [][ChartNext]_vars

\* ---- the table of a COMPARE ALL load: its specification ----

\* The page after a COMPARE ALL load of every strategy, no metric box
\* checked; the strategy <select> stands at __ALL__ (0).
TableInit ==
    \E turn \in 1..Len(DatasetChoices) :
      LET ds == [k \in Keys |->
                   DatasetChoices[((k + turn) % Len(DatasetChoices)) + 1]]
      IN /\ page = LoadedPage(ds, [series |-> {}, strats |-> Keys])
         /\ dom = [series |-> {}, strats |-> Keys,
                   tbody |-> page.activeTableKey,
                   calc |-> RenderedWith(page),
                   startAtLaunch |-> FALSE, strategy |-> 0]
         /\ pageEv = [kind |-> "load"]
         /\ prefill = {}

\* prefillStartFromLaunch up to its await: nothing unless "At Launch" is
\* checked and a strategy (not __ALL__) is selected.
PrefillRequests(c) ==
    IF c.startAtLaunch /\ c.strategy # 0 THEN prefill \cup {c.strategy}
    ELSE prefill

\* The change event of the "At Launch" box.
StartAtLaunchChange ==
    /\ dom' = [dom EXCEPT !.startAtLaunch = ~@]
    /\ prefill' = PrefillRequests(dom')
    /\ pageEv' = [kind |-> "atLaunch"]
    /\ UNCHANGED <<page, loadVars, rateVars, fnVars>>

\* The change event of the strategy <select>: v is a strategy, or 0.
StrategyChange(v) ==
    /\ v # dom.strategy
    /\ dom' = [dom EXCEPT !.strategy = v]
    /\ prefill' = PrefillRequests(dom')
    /\ pageEv' = [kind |-> "strategy"]
    /\ UNCHANGED <<page, loadVars, rateVars, fnVars>>

\* The launch time the token response of strategy k yields: the one its
\* dataset was built from.
TokenLaunchTs(k) ==
    IF k \in DOMAIN page.datasets THEN page.datasets[k].launchTs ELSE Null

\* prefillStartFromLaunch resumes: with a response (ok) a truthy launchTs is
\* written to state.launchTs; a failed request is ignored.
PrefillResolved(k, ok) ==
    /\ k \in prefill
    /\ prefill' = prefill \ {k}
    /\ page' = IF ok /\ TokenLaunchTs(k).d # 0 /\ TokenLaunchTs(k).n # 0
               THEN [page EXCEPT !.launchTs = TokenLaunchTs(k)]
               ELSE page
    /\ pageEv' = [kind |-> "prefill"]
    /\ UNCHANGED <<dom, loadVars, rateVars, fnVars>>

\* The change event of the column picker: renderRows(currentTableRows()).
ColumnPickerChange ==
    /\ dom' = [dom EXCEPT !.tbody = page.activeTableKey,
                          !.calc = RenderedWith(page)]
    /\ pageEv' = [kind |-> "columns"]
    /\ UNCHANGED <<page, prefill, loadVars, rateVars, fnVars>>

TableNext ==
    \/ \E k \in Keys : SwitchTableTab(k)
    \/ StartAtLaunchChange
    \/ \E v \in Keys \cup {0} : StrategyChange(v)
    \/ \E k \in Keys, ok \in BOOLEAN : PrefillResolved(k, ok)
    \/ ColumnPickerChange

TableSpecInit == LoadIdle /\ RateInit /\ TableInit /\ FnIdle

TableSpec == TableSpecInit /\ [][TableNext]_vars

\* ---- the pure functions: their specification ----

\* STEP_MAP[...].sec
StepSecs == {60, 300, 600, 900, 3600, 14400, 43200, 86400}

\* Start times: the epoch, a small one, and two shortly before the end of
\* the int32 range (19 January 2038).
GridStarts == {JsNum(0), JsNum(1000), JsNum(Int32Max - 86400), JsNum(Int32Max)}

\* createTimeGrid(startUnix, startUnix + span, stepSec), where span is
\* (rows - 1) * stepSec as loadPrices computes it, or up to a step more.
GridCalls ==
    {[fn |-> "createTimeGrid", startUnix |-> s, span |-> (n - 1) * st + x,
      stepSec |-> st, maxRows |-> n, aligned |-> x = 0] :
        s \in GridStarts, st \in StepSecs, n \in 1..GridRows, x \in {0, 1, 59}}

CallCreateTimeGrid ==
    /\ call.fn = "createTimeGrid" /\ ~ret.done
    /\ ret' = Returned(CreateTimeGrid(call.startUnix,
                                       JsAdd(call.startUnix, call.span),
                                       call.stepSec))
    /\ UNCHANGED <<call, loadVars, rateVars, chartVars>>

\* An entity of `included`: a pool, or something else.
Entity(type, addr, reserve, vol, baseId, quoteId) ==
    [type |-> type, address |-> addr, reserve_in_usd |-> reserve,
     volume_h24 |-> vol, baseId |-> baseId, quoteId |-> quoteId,
     pool_created_at |-> [t |-> "null"]]

EthId(addr) == IF addr = <<>> THEN <<>> ELSE <<"e", "t", "h", "_">> \o addr

\* Token addresses as STRATEGIES and the API write them: one address in
\* three spellings, and another one.
Addresses == { <<"0", "x", "a", "B">>, <<"0", "x", "A", "b">>,
               <<"0", "x", "a", "b">>, <<"0", "x", "c", "d">> }
WETH == <<"0", "x", "e", "e">>

EntityShapes ==
    [type : {"pool", "token"}, reserve : 0..2, vol : 0..1]

\* pickMostLiquidPool on a response without `included`, or with up to
\* MaxIncluded entities; the i-th entity has address i.
PickCalls ==
    {[fn |-> "pickMostLiquidPool",
      tokenJson |-> [hasIncluded |-> FALSE, included |-> <<>>],
      address |-> <<"0", "x", "a", "b">>]}
    \cup
    {[fn |-> "pickMostLiquidPool",
      tokenJson |->
        [hasIncluded |-> TRUE,
         included |-> [i \in 1..Len(shapes) |->
                         Entity(shapes[i].type, i, shapes[i].reserve,
                                shapes[i].vol, EthId(<<"0", "x", "a", "b">>),
                                EthId(WETH))]],
      address |-> <<"0", "x", "a", "b">>] :
        shapes \in UNION {[1..n -> EntityShapes] : n \in 0..MaxIncluded}}

\* The attributes of a token: a price and a total supply, or only a fully
\* diluted valuation (the reference price is then the last close).
PricedAttrs ==
    [normalized_circulating_supply |-> Absent, circulating_supply |-> Absent,
     normalized_total_supply |-> Numeric(3), total_supply |-> Absent,
     decimals |-> Absent, market_cap_usd |-> Absent, fdv_usd |-> Absent,
     price_usd |-> Numeric(4)]
UnpricedAttrs ==
    [PricedAttrs EXCEPT !.normalized_total_supply = Absent,
                        !.fdv_usd = Numeric(80), !.price_usd = Absent]

\* loadOneToken for a token whose most liquid pool (pool 2) has the given
\* base and quote tokens (an empty address: the relationship is missing); a
\* second, smaller pool has them the other way round.  One row of one
\* minute is asked for and the API has no candle.
LoadOneTokenArgs(a, b, q) ==
    [fn |-> "loadOneToken", address |-> a, baseAddr |-> b, quoteAddr |-> q,
     tokenJson |->
        [hasIncluded |-> TRUE,
         included |-> << Entity("pool", 1, 1, 1, EthId(q), EthId(b)),
                         Entity("pool", 2, 2, 0, EthId(b), EthId(q)) >>],
     tokenAttrs |-> PricedAttrs,
     raw |-> <<>>, step |-> STEP_MAP["1m"], maxRows |-> 1,
     startUnix |-> 0, endUnix |-> 0]

TokenArgs == LoadOneTokenArgs(<<"0", "x", "a", "b">>, <<"0", "x", "a", "b">>, WETH)

AddressCalls ==
    {LoadOneTokenArgs(a, b, q) :
        a \in Addresses, b \in Addresses \cup {WETH, <<>>},
        q \in Addresses \cup {WETH, <<>>}}

\* Candles of an OHLCV response: four minutes, the first of them with one
\* of two sets of prices.
RawCandles ==
    {[ts |-> 0, o |-> 3, h |-> 5, l |-> 0, c |-> 3, v |-> 2],
     [ts |-> 0, o |-> 1, h |-> 4, l |-> 1, c |-> 2, v |-> 1],
     [ts |-> 60, o |-> 2, h |-> 6, l |-> 1, c |-> 4, v |-> 3],
     [ts |-> 600, o |-> 1, h |-> 4, l |-> 1, c |-> 2, v |-> 1],
     [ts |-> 1200, o |-> 2, h |-> 2, l |-> 2, c |-> 2, v |-> 0]}

\* endUnix as loadPrices computes it.
EndUnix(startUnix, maxRows, step) == startUnix + (maxRows - 1) * step.sec

\* loadOneToken on up to MaxRaw candles in any order, for the 1m and the 10m
\* step, with the range of loadPrices or a longer one.
RowsCalls ==
    {[TokenArgs EXCEPT !.raw = q, !.step = STEP_MAP[k], !.maxRows = n,
                       !.startUnix = st,
                       !.endUnix = IF long THEN 1200
                                   ELSE EndUnix(st, n, STEP_MAP[k])] :
        q \in UNION {[1..m -> RawCandles] : m \in 0..MaxRaw},
        k \in {"1m", "10m"}, n \in 1..MaxRows, st \in {0, 60},
        long \in BOOLEAN}

\* Row counts around the places where the limit reaches the API's maximum.
RowCounts == {1, 2, 99, 100, 101, 994, 995, 996, 1000}

\* loadOneToken for every step and row count, from a start on or off the
\* step, over the range of loadPrices or one up to two minutes longer.
LimitCalls ==
    {[TokenArgs EXCEPT !.step = STEP_MAP[k], !.maxRows = n, !.startUnix = st,
                       !.endUnix = EndUnix(st, n, STEP_MAP[k]) + x] :
        k \in DOMAIN STEP_MAP, n \in RowCounts, st \in {0, 1000},
        x \in {0, 1, 120}}

\* loadOneToken for a token with the priced or the unpriced attributes and
\* one candle or none.
AttrCalls ==
    {[TokenArgs EXCEPT !.tokenAttrs = a, !.raw = q] :
        a \in {PricedAttrs, UnpricedAttrs,
                [UnpricedAttrs EXCEPT !.price_usd = Numeric(0)]},
        q \in {<<>>, <<[ts |-> 0, o |-> 3, h |-> 5, l |-> 0, c |-> 3, v |-> 2]>>}}

\* Creation dates of a pool: none, a string that is no date, two dates.
PoolDates == {Absent, Junk, IsoDate(500), IsoDate(900)}

CreatedAt(e, date) == [e EXCEPT !.pool_created_at = date]

\* loadOneToken for a token whose pools have any of the creation dates; the
\* response also includes the token entity, or a third pool.
LaunchCalls ==
    {[TokenArgs EXCEPT !.tokenJson.included =
         << CreatedAt(TokenArgs.tokenJson.included[1], d1),
            CreatedAt(TokenArgs.tokenJson.included[2], d2),
            CreatedAt(Entity(ty, 3, 0, 0, <<>>, <<>>), d3) >>] :
        d1 \in PoolDates, d2 \in PoolDates, d3 \in PoolDates,
        ty \in {"pool", "token"}}

LoadOneTokenCalls ==
    AddressCalls \cup RowsCalls \cup LimitCalls \cup AttrCalls \cup LaunchCalls

CallPickMostLiquidPool ==
    /\ call.fn = "pickMostLiquidPool" /\ ~ret.done
    /\ ret' = Returned(PickMostLiquidPool(call.tokenJson, call.address))
    /\ UNCHANGED <<call, loadVars, rateVars, chartVars>>

CallLoadOneToken ==
    /\ call.fn = "loadOneToken" /\ ~ret.done
    /\ ret' = Returned(LoadOneToken(call))
    /\ UNCHANGED <<call, loadVars, rateVars, chartVars>>

\* 1-minute candles: five minutes of three 10-minute buckets, each with one
\* of two sets of prices.
OneMinCandles ==
    {[ts |-> t, o |-> p.o, h |-> p.h, l |-> p.l, c |-> p.c, v |-> p.v] :
        t \in {0, 60, 540, 600, 1200},
        p \in {[o |-> 1, h |-> 4, l |-> 1, c |-> 2, v |-> 1],
                [o |-> 3, h |-> 5, l |-> 0, c |-> 3, v |-> 2]}}

\* aggregateTo10m on up to MaxCandles candles, in any order.
AggregateCalls ==
    {[fn |-> "aggregateTo10m", oneMin |-> q] :
        q \in UNION {[1..n -> OneMinCandles] : n \in 0..MaxCandles}}

CallAggregateTo10m ==
    /\ call.fn = "aggregateTo10m" /\ ~ret.done
    /\ ret' = Returned(AggregateTo10m(call.oneMin))
    /\ UNCHANGED <<call, loadVars, rateVars, chartVars>>

\* deriveSupplyForMcap on attributes that are absent, no number, zero,
\* negative or positive (a different positive number for each field), with
\* decimals in and out of range.
SupplyCalls ==
    {[fn |-> "deriveSupplyForMcap", refPrice |-> p,
      tokenAttrs |-> [normalized_circulating_supply |-> nc,
                      circulating_supply |-> c,
                      normalized_total_supply |-> nt,
                      total_supply |-> ts, decimals |-> dec,
                      market_cap_usd |-> mc, fdv_usd |-> fdv]] :
        nc \in {Absent, Junk, Numeric(0), Numeric(0 - 1), Numeric(7)},
        c \in {Absent, Numeric(0), Numeric(5)},
        nt \in {Absent, Numeric(0 - 2), Numeric(3)},
        ts \in {Absent, Junk, Numeric(200)},
        dec \in {Absent, Junk, Numeric(2), Numeric(MaxDecimals),
                 Numeric(MaxDecimals + 1), Numeric(0 - 1)},
        mc \in {Absent, Numeric(0), Numeric(40)},
        fdv \in {Absent, Numeric(80)},
        p \in {Absent, Numeric(0), Numeric(4)}}

CallDeriveSupplyForMcap ==
    /\ call.fn = "deriveSupplyForMcap" /\ ~ret.done
    /\ ret' = Returned(DeriveSupplyForMcap(call.tokenAttrs, call.refPrice))
    /\ UNCHANGED <<call, loadVars, rateVars, chartVars>>

\* The fee of a row two minutes before the launch (or before time 0 when
\* the launch is unknown); the rows after it follow one by one.
FeeCalls ==
    {[fn |-> "computeTradingFeePercentFor", launchTs |-> l,
      tsSec |-> l.n - 120] : l \in {Null, Num(0), Num(1000), Num(1030)}}

CallComputeTradingFeePercentFor ==
    /\ call.fn = "computeTradingFeePercentFor" /\ ~ret.done
    /\ ret' = Returned(ComputeTradingFeePercentFor(call.launchTs, call.tsSec))
    /\ UNCHANGED <<call, loadVars, rateVars, chartVars>>

\* The fee of the next row, d seconds later (renderRows, buildChartData and
\* buildChartDataMulti compute it row by row).
NextRowFee(d) ==
    /\ call.fn = "computeTradingFeePercentFor" /\ ret.done
    /\ call.tsSec + d <= call.launchTs.n + MaxFeeMinutes * 60
    /\ call' = [call EXCEPT !.tsSec = @ + d]
    /\ ret' = Returned(ComputeTradingFeePercentFor(call.launchTs, call'.tsSec))
    /\ UNCHANGED <<loadVars, rateVars, chartVars>>

\* breakevenMultipleFromFee on null, on a value that is not finite, on whole
\* percentages from below 0 to above 100, and on halves around 100.
BreakevenCalls ==
    {[fn |-> "breakevenMultipleFromFee", pct |-> p] :
        p \in {Null, NotFinite} \cup {Num(x) : x \in (0 - 1)..MaxPct}
               \cup {[n |-> x, d |-> 2] : x \in {1, 199, 201}}}

CallBreakevenMultipleFromFee ==
    /\ call.fn = "breakevenMultipleFromFee" /\ ~ret.done
    /\ ret' = Returned(BreakevenMultipleFromFee(call.pct))
    /\ UNCHANGED <<call, loadVars, rateVars, chartVars>>

FnCalls ==
    GridCalls \cup PickCalls \cup LoadOneTokenCalls \cup AggregateCalls
        \cup SupplyCalls \cup FeeCalls \cup BreakevenCalls

FnInit ==
    /\ LoadIdle /\ RateInit /\ ChartIdle
    /\ call \in FnCalls
    /\ ret = Pending

FnNext ==
    \/ CallCreateTimeGrid
    \/ CallPickMostLiquidPool
    \/ CallLoadOneToken
    \/ CallAggregateTo10m
    \/ CallDeriveSupplyForMcap
    \/ CallComputeTradingFeePercentFor
    \/ CallBreakevenMultipleFromFee
    \/ \E d \in {1, 59, 60} : NextRowFee(d)

FnSpec == FnInit /\ [][FnNext]_vars

\* ---- the load state machine of the specification ----

Range(q) == {q[i] : i \in 1..Len(q)}

\* The outcome a terminal status stands for:
\* Idle -> Loading -> {Ready | PartialReady | Aborted | Failed}.
Outcome(st) ==
    CASE st.msg = "Done rows" -> "Ready"
      [] st.msg = "Done tokens" ->
            IF st.n = NumStrategies THEN "Ready" ELSE "PartialReady"
      [] st.msg = "Stopped." -> "Aborted"
      [] st.msg \in {"Error", "No data for any strategy.",
                     "No pool found for this token.",
                     "Please select a strategy."} -> "Failed"
      [] OTHER -> "none"

\* The loads that are in flight with a signal nobody has aborted.
LiveLoads == {l \in Loads : InFlight(l) /\ ~aborted[l]}

\* ---- claims ----

\* C1: at every moment at most one load whose signal has not been aborted is
\* in flight (every loadPrices invocation aborts each earlier unfinished load
\* before issuing its own first request).
C1_AtMostOneLiveLoad == Cardinality(LiveLoads) <= 1

\* C2: once a load has been cancelled or superseded by a newer loadPrices
\* invocation, none of its continuations (its catch and finally blocks
\* included) writes state.datasets, state.activeTableKey, state.chart,
\* state.mcapSupply, state.launchTs, the status/busy indicator or the global
\* aborter.
C2_StaleLoadWritesNothing ==
    [][\A l \in Loads :
          (ev'.kind = "cont" /\ ev'.load = l /\ (aborted[l] \/ l < started)) =>
              UNCHANGED <<state, els.status, els.busy, aborter>>]_vars

\* C3: a Stop click aborts the signal of every load that is in flight, also
\* of a load started while a previous load was still in flight; its rejection
\* is then queued, so the load ends Aborted.
C3_StopAbortsInFlightLoad ==
    ev.kind = "stop" =>
        \A l \in Loads : InFlight(l) =>
            aborted[l] /\ (\E r \in Range(micro) : r.load = l)

\* C4: in compare-all mode, when a request of one strategy fails with an HTTP
\* or network error, that strategy is left out of state.datasets and the loop
\* goes on with the next strategy; the load ends in a failure only when it
\* could load no strategy at all.
C4_FailedStrategyIsSkipped ==
    (ev.kind = "cont" /\ ev.sel = "all" /\ ev.res \in {"http", "net"}) =>
        /\ <<ev.k, ev.load>> \notin Range(state.datasets)
        /\ ev.k < NumStrategies =>
              ~ev.ended /\ pc[ev.load] = "pools" /\ idx[ev.load] = ev.k + 1
        /\ (ev.ended /\ Outcome(els.status) = "Failed") =>
              \A d \in Range(state.datasets) : d[2] # ev.load

\* C5: if a load is aborted or fails before completing, the entities it had
\* built are discarded: state.datasets, state.activeTableKey,
\* state.chart.timeGrid and the chart series then hold the values they had
\* before that load started.
C5_UnfinishedLoadIsDiscarded ==
    [][(/\ ev'.kind = "cont" /\ ev'.load = started /\ ev'.ended
        /\ Outcome(els'.status) \in {"Aborted", "Failed"}) =>
            View(state') = before]_vars

\* C6: within one load at most one request is outstanding at any time, and it
\* is the request of the step the load is at: the OHLCV request of a token is
\* out only once that token's token+pools request has completed, and the
\* requests of strategy k+1 only once strategy k is over.
C6_OneRequestAtATime ==
    /\ \A l \in Loads :
          Cardinality({r \in net \cup Range(micro) : r.load = l}) <= 1
    /\ \A r \in net :
          InFlight(r.load) /\ r.kind = pc[r.load] /\ r.k = idx[r.load]

C6_Witness ==
    \E l \in Loads :
        /\ sel[l] = "all"
        /\ idx[l] = NumStrategies
        /\ Req(l, "ohlcv", NumStrategies) \in net
        /\ reqCount[l] = 2 * NumStrategies

\* C7: assuming every issued fetch eventually resolves or rejects, every
\* loadPrices invocation eventually ends, in exactly one terminal outcome
\* (Ready, PartialReady, Aborted or Failed), and issues no request after it.
C7_EveryLoadEndsOnce ==
    /\ \A l \in Loads : (pc[l] # "idle") ~> (pc[l] = "done")
    /\ [](ev.ended =>
            /\ pc[ev.load] = "done"
            /\ Outcome(els.status) \in {"Ready", "PartialReady", "Aborted", "Failed"})
    /\ [][\A l \in Loads :
            pc[l] = "done" =>
                /\ pc'[l] = "done"
                /\ reqCount'[l] = reqCount[l]
                /\ ~(ev'.load = l /\ ev'.ended)
                /\ \A r \in net' : r.load # l]_vars

C7_Witness ==
    /\ ev.ended
    /\ ev.sel = "all"
    /\ ev.reqs = 2 * NumStrategies - 1
    /\ Outcome(els.status) = "PartialReady"

\* C8: a load that ends because it was cancelled reports 'Stopped.' and never
\* 'Error: ...'; a load that ends because a request returned a non-2xx
\* response or the transport failed reports 'Error: ...' and never 'Stopped.'.
C8_StoppedIffCancelled ==
    (ev.kind = "cont" /\ ev.ended) =>
        /\ ev.res = "abort" <=> els.status.msg = "Stopped."
        /\ ev.res \in {"http", "net"} <=> els.status.msg = "Error"

C8_Witness ==
    /\ ev.kind = "cont"
    /\ ev.ended
    /\ ev.res = "abort"
    /\ ev.load < started
    /\ els.status.msg = "Stopped."

\* C9: for a token whose token+pools response has no pool, loadOneToken
\* returns without issuing an OHLCV request; in compare-all mode the token is
\* skipped and the loop goes on with the remaining strategies; in
\* single-token mode the load ends with 'No pool found' and the displayed
\* rows are not changed.
C9_NoPoolIsTerminalForThatToken ==
    [][(ev'.kind = "cont" /\ ev'.res = "nopool") =>
          LET l == ev'.load IN
          /\ \A r \in net' : r.load = l => r.kind # "ohlcv"
          /\ <<ev'.k, l>> \notin Range(state'.datasets)
          /\ ev'.sel = "all" =>
                IF ev'.k < NumStrategies
                THEN /\ ~ev'.ended
                     /\ pc'[l] = "pools"
                     /\ idx'[l] = ev'.k + 1
                     /\ Req(l, "pools", ev'.k + 1) \in net'
                     /\ reqCount'[l] = reqCount[l] + 1
                ELSE /\ ev'.ended
                     /\ ev'.reqs = reqCount[l]
                     /\ els'.status.msg \in {"Done tokens", "No data for any strategy."}
          /\ ev'.sel # "all" =>
                /\ ev'.ended
                /\ ev'.reqs = reqCount[l]
                /\ els'.status.msg = "No pool found for this token."
                /\ els'.tbody = els.tbody
                /\ state'.chart = state.chart]_vars

C9_Witness ==
    /\ ev.kind = "cont"
    /\ ev.res = "nopool"
    /\ ev.sel = "all"
    /\ ev.k < NumStrategies
    /\ Req(ev.load, "pools", ev.k + 1) \in net

\* C10: every completed single-token load issues exactly 2 API requests and
\* every completed compare-all load over N strategies exactly 2 x N, for
\* every setting of the controls ('At Launch' checked included).
C10_RequestBudget ==
    (ev.ended /\ Outcome(els.status) = "Ready") =>
        IF ev.sel = "all"
        THEN (\A k \in Keys : <<k, ev.load>> \in Range(state.datasets)) =>
                 ev.reqs = 2 * NumStrategies
        ELSE ev.reqs = 2

\* ---- claims about the API rate meter ----

\* Entries of the sequence q that fall in the trailing window at time t.
InWindow(q, t) == {i \in 1..Len(q) : q[i] >= t - RateWindowMs}

\* C11: the value read from the rate meter is the number of requests issued
\* in the trailing 60 seconds: every request is recorded once when issued,
\* a read (a render, also the one a record ends with) removes the entries
\* older than 60 s, and no entry within the window is ever removed.
C11_RateMeterCountsTrailingMinute ==
    /\ [](Cardinality(InWindow(apiRate.calls, now))
             = Cardinality(InWindow(issued, now)))
    /\ [][now' = now =>
             /\ rateText' = Cardinality(InWindow(issued', now'))
             /\ Len(apiRate'.calls) = rateText']_rateVars
    /\ [][Len(issued') = Len(issued) + 1 =>
             Len(apiRate'.calls) = Len(ApiRatePrune(apiRate.calls, now)) + 1]_rateVars

\* Three requests, two of them read after they left the window at once, the
\* third exactly 60 s old and still counted.
C11_Witness ==
    /\ Len(issued) = MaxCalls
    /\ rateText = 1
    /\ apiRate.calls = <<now - RateWindowMs>>

\* ---- claims about the chart data ----

\* The raw candle field a metric shows.
RawField(ser, r) ==
    CASE ser = "open" -> r.o [] ser = "high" -> r.h [] ser = "low" -> r.l
      [] ser = "close" -> r.c [] ser = "volume" -> r.v

\* C12: for every dataset, metric and grid index i the projected value comes
\* from the dataset row whose ts equals grid[i]; where the dataset has no row
\* with that timestamp the value is null: not 0, not a neighbouring row's
\* value, not an interpolation.
C12_GapsStayNull ==
    \A key \in Range(page.chart.combinedKeys) :
      \A i \in 1..Len(page.chart.timeGrid) :
        LET ds == page.datasets[key[1]]
            ser == key[2]
            v == page.chart.seriesCombined[key][i]
            at == {j \in 1..Len(ds.rows) : ds.rows[j].ts = page.chart.timeGrid[i]}
        IN /\ Len(page.chart.seriesCombined[key]) = Len(page.chart.timeGrid)
           /\ at = {} => v = Null
           /\ (at # {} /\ ser \in {"open", "high", "low", "close", "volume"})
                => \E j \in at : v = RawField(ser, ds.rows[j])
           /\ (at # {} /\ ser = "mcap")
                => \E j \in at :
                     v = IF ds.rows[j].c = Null \/ ds.supply = Null THEN Null
                         ELSE Mul(ds.rows[j].c, ds.supply)

\* Rows at the first two grid points, none at the last: close is 10, 12, null.
C12_Witness ==
    \E k \in DOMAIN page.datasets :
      /\ pageEv.kind = "series"
      /\ <<k, "close">> \in Range(page.chart.combinedKeys)
      /\ Len(page.chart.timeGrid) = GridRows
      /\ page.chart.seriesCombined[<<k, "close">>][1] = Num(10)
      /\ page.chart.seriesCombined[<<k, "close">>][2] = Num(12)
      /\ page.chart.seriesCombined[<<k, "close">>][GridRows] = Null

\* C13: switchTableTab(key), for any loaded key and any combination of
\* checked metric and token boxes (none checked included), leaves the chart
\* unchanged: timeGrid, the x-axis rows, combinedKeys and seriesCombined.
C13_TabSwitchKeepsChart ==
    [][pageEv'.kind = "tab" =>
         /\ page'.chart.timeGrid = page.chart.timeGrid
         /\ page'.chart.rows = page.chart.rows
         /\ page'.chart.combinedKeys = page.chart.combinedKeys
         /\ page'.chart.seriesCombined = page.chart.seriesCombined]_chartVars

\* The arguments of the buildChartDataMulti call that built the chart.
BuiltSeriesKeys ==
    IF pageEv.kind = "tab" THEN TabSeriesKeys(dom) ELSE GetMetricKeysOrDefault(dom)

\* C14: buildChartDataMulti called again with the same datasets, grid,
\* metric keys and strategy keys yields the same combinedKeys and the same
\* seriesCombined, and no call modifies the datasets or the grid.
C14_BuildIsIdempotent ==
    /\ [](LET again == ChartDataMulti(page, BuiltSeriesKeys,
                                       GetCheckedStrategyKeys(dom))
          IN /\ again.chart.combinedKeys = page.chart.combinedKeys
             /\ again.chart.seriesCombined = page.chart.seriesCombined
             /\ again.datasets = page.datasets
             /\ again.chart.timeGrid = page.chart.timeGrid)
    /\ [][/\ page'.datasets = page.datasets
          /\ page'.chart.timeGrid = page.chart.timeGrid]_chartVars

\* A chart of two metrics of every token, rebuilt by a tab switch.
C14_Witness ==
    /\ pageEv.kind = "tab"
    /\ Len(page.chart.combinedKeys) = 2 * NumStrategies
    /\ dom.series = {"fee", "breakeven_mc"}

\* ---- claims about the pure functions ----

\* C15: for integers startUnix <= endUnix and stepSeconds > 0 createTimeGrid
\* returns floor((endUnix - startUnix) / stepSeconds) + 1 timestamps, the
\* i-th (from 0) being startUnix + i * stepSeconds, none past endUnix; with
\* endUnix = startUnix + (maxRows - 1) * stepSeconds it has maxRows points.
C15_GridIsArithmetic ==
    (call.fn = "createTimeGrid" /\ ret.done) =>
        /\ Len(ret.val) = (call.span \div call.stepSec) + 1
        /\ \A i \in 1..Len(ret.val) :
              /\ JsNum(ret.val[i]) = JsAdd(call.startUnix, (i - 1) * call.stepSec)
              /\ JsLeq(JsNum(ret.val[i]), JsAdd(call.startUnix, call.span))
        /\ call.aligned => Len(ret.val) = call.maxRows

\* The pools of a token response.
PoolsOf(tokenJson) ==
    {e \in Range(tokenJson.included) : tokenJson.hasIncluded /\ e.type = "pool"}

\* C16: pickMostLiquidPool returns null exactly when the response includes
\* no entity of type "pool"; otherwise the returned pool has the largest
\* reserve_in_usd of the included pools and, among the pools with that
\* reserve, the largest volume_usd.h24.
C16_MostLiquidPool ==
    (call.fn = "pickMostLiquidPool" /\ ret.done) =>
        LET pools == PoolsOf(call.tokenJson)
        IN /\ ~ret.val.found <=> pools = {}
           /\ ret.val.found =>
                \E p \in pools :
                  /\ p.address = ret.val.poolAddress
                  /\ ret.val.reserveUSD = p.reserve_in_usd
                  /\ \A o \in pools : o.reserve_in_usd <= p.reserve_in_usd
                  /\ \A o \in pools : o.reserve_in_usd = p.reserve_in_usd
                                         => o.volume_h24 <= p.volume_h24

\* The pool returned comes after a pool of the same reserve and less volume
\* and after a non-pool entity.
C16_Witness ==
    /\ call.fn = "pickMostLiquidPool" /\ ret.done /\ ret.val.found
    /\ ret.val.poolAddress = MaxIncluded
    /\ call.tokenJson.included[1].type = "token"
    /\ \E o \in PoolsOf(call.tokenJson) :
          /\ o.address < MaxIncluded
          /\ o.reserve_in_usd = ret.val.reserveUSD
          /\ o.volume_h24 < call.tokenJson.included[MaxIncluded].volume_h24

\* Two addresses that differ at most in letter case.
SameIgnoringCase(a, b) ==
    /\ Len(a) = Len(b)
    /\ \A i \in 1..Len(a) :
          \/ a[i] = b[i]
          \/ {a[i], b[i]} \in {{"a", "A"}, {"b", "B"}, {"c", "C"}, {"d", "D"},
                                {"e", "E"}, {"f", "F"}, {"x", "X"}}

\* C17: for the selected pool side is "quote" exactly when the pool's
\* quote-token address equals the queried token address ignoring letter
\* case, "base" in every other case (also when neither address matches), and
\* the OHLCV request of the token is issued with this side.
C17_SideOfSelectedPool ==
    (call.fn = "loadOneToken" /\ ret.done) =>
        /\ ret.val.error = ""
        /\ ret.val.pool = 2
        /\ ret.val.token = IF SameIgnoringCase(call.quoteAddr, call.address)
                            THEN "quote" ELSE "base"

\* The quote token is the queried token in another spelling.
C17_Witness ==
    /\ call.fn = "loadOneToken" /\ ret.done
    /\ ret.val.token = "quote"
    /\ call.quoteAddr # call.address
    /\ call.baseAddr = WETH

\* The sum of f over the finite set S of indices.
RECURSIVE SumOver(_, _)
SumOver(S, q) ==
    IF S = {} THEN 0
    ELSE LET j == CHOOSE x \in S : TRUE IN q[j].v + SumOver(S \ {j}, q)

\* C18: aggregateTo10m returns one candle per bucket floor(ts/600)*600 of
\* the input, in ascending order of bucket time; its open is the open of
\* the bucket's candle of smallest ts, its close the close of the one of
\* largest ts, its high the largest high, its low the smallest low and its
\* volume the sum of the volumes; no candles in, none out.
C18_TenMinuteCandles ==
    (call.fn = "aggregateTo10m" /\ ret.done) =>
        LET in == call.oneMin
            out == ret.val
            of(b) == {j \in 1..Len(in) : (in[j].ts \div 600) * 600 = b.ts}
        IN /\ {out[i].ts : i \in 1..Len(out)}
                = {(in[j].ts \div 600) * 600 : j \in 1..Len(in)}
           /\ \A i \in 1..Len(out) - 1 : out[i].ts < out[i + 1].ts
           /\ in = <<>> => out = <<>>
           /\ \A i \in 1..Len(out) :
                LET b == out[i] IN
                /\ \E j \in of(b) : /\ b.o = in[j].o
                                      /\ \A m \in of(b) : in[j].ts <= in[m].ts
                /\ \E j \in of(b) : /\ b.c = in[j].c
                                      /\ \A m \in of(b) : in[m].ts <= in[j].ts
                /\ \E j \in of(b) : b.h = in[j].h
                /\ \A j \in of(b) : in[j].h <= b.h
                /\ \E j \in of(b) : b.l = in[j].l
                /\ \A j \in of(b) : b.l <= in[j].l
                /\ b.v = SumOver(of(b), in)

\* Candles in descending order of time, two of them in the first bucket
\* returned, whose open is that of the candle that came last.
C18_Witness ==
    /\ call.fn = "aggregateTo10m" /\ ret.done
    /\ Len(call.oneMin) = MaxCandles
    /\ Len(ret.val) = 2
    /\ \A j \in 1..MaxCandles - 1 : call.oneMin[j].ts > call.oneMin[j + 1].ts
    /\ ret.val[1].firstTs < ret.val[1].lastTs
    /\ ret.val[1].o = call.oneMin[MaxCandles].o
    /\ ret.val[1].o # call.oneMin[MaxCandles - 1].o

\* An attribute that holds a positive number.
Pos(x) == x.t = "num" /\ x.n > 0

\* decimals lies in [0, 36]; an absent decimals counts as 0.
DecimalsInRange(x) == x.t = "null" \/ (x.t = "num" /\ x.n >= 0 /\ x.n <= 36)

C20_FeeSchedule ==
    /\ []((call.fn = "computeTradingFeePercentFor" /\ ret.done) =>
            LET fee == ret.val
                ts == call.tsSec
            IN /\ fee >= 10 /\ fee <= 95
               /\ call.launchTs = Null => fee = 10
               /\ call.launchTs # Null =>
                    LET launch == call.launchTs.n
                    IN /\ ts < launch => fee = 95
                       /\ ts = launch => fee = 95
                       /\ ts >= launch + 85 * 60 => fee = 10
                       /\ (ts >= launch /\ ts < launch + 85 * 60)
                            => fee = 95 - ((ts - launch) \div 60))
    /\ [][(call.fn = "computeTradingFeePercentFor" /\ ret.done /\ ret'.done
            /\ call.launchTs # Null /\ call.tsSec >= call.launchTs.n)
           => /\ ret'.val <= ret.val
              /\ call'.tsSec = call.tsSec + 60
                   => ret'.val = IF ret.val > 10 THEN ret.val - 1 ELSE 10]_fnVars

\* 45 minutes after the launch the fee is 50.
C20_Witness ==
    /\ call.fn = "computeTradingFeePercentFor" /\ ret.done
    /\ call.launchTs = Num(1000)
    /\ call.tsSec = 1000 + 2700
    /\ ret.val = 50

\* C21: for every fee percentage p < 100, breakevenMultipleFromFee(p) times
\* (100 - p) is 100; for p >= 100 and for a p that is absent or not finite
\* the result is null; so for every fee the fee function produces (10..95)
\* the breakeven multiple is defined and lies between 100/90 and 20.
C21_BreakevenInverse ==
    /\ (call.fn = "breakevenMultipleFromFee" /\ ret.done) =>
          LET p == call.pct
              m == ret.val
          IN IF p.d # 0 /\ p.n < 100 * p.d
             THEN /\ m.d > 0
                  /\ Mul(m, [n |-> 100 * p.d - p.n, d |-> p.d]).n
                       = 100 * Mul(m, [n |-> 100 * p.d - p.n, d |-> p.d]).d
             ELSE m = Null
    /\ (call.fn = "computeTradingFeePercentFor" /\ ret.done) =>
          LET m == BreakevenMultipleFromFee(Num(ret.val))
          IN /\ m.d > 0
             /\ 90 * m.n >= 100 * m.d
             /\ m.n <= 20 * m.d

\* The fee of 95 % has the multiple 20, the fee of 99.5 % the multiple 200.
C21_Witness ==
    /\ call.fn = "breakevenMultipleFromFee" /\ ret.done
    /\ call.pct = [n |-> 199, d |-> 2]
    /\ ret.val.n = 200 * ret.val.d

\* ---- claims about loadOneToken ----

\* The timestamps of the candles loadOneToken filters, as a sequence: those
\* of the response for a native step, one per 10-minute bucket otherwise.
RECURSIVE Distinct(_)
Distinct(q) ==
    IF q = <<>> THEN <<>>
    ELSE LET front == Distinct(SubSeq(q, 1, Len(q) - 1))
         IN IF \E i \in 1..Len(front) : front[i] = q[Len(q)] THEN front
            ELSE Append(front, q[Len(q)])
SeriesTs(c) ==
    IF c.step.client10m
    THEN Distinct([j \in 1..Len(c.raw) |-> (c.raw[j].ts \div 600) * 600])
    ELSE [j \in 1..Len(c.raw) |-> c.raw[j].ts]
InRangeTs(c) ==
    SelectSeq(SeriesTs(c), LAMBDA t : t >= c.startUnix /\ t <= c.endUnix)
CountOf(q, t) == Cardinality({i \in 1..Len(q) : q[i] = t})

\* C22: the rows of the dataset built by loadOneToken all have
\* startUnix <= ts <= endUnix, are at most maxRows, and, when more than
\* maxRows candles lie in the range, are the maxRows in-range candles with
\* the smallest timestamps.
C22_EarliestRowsInRange ==
    (call.fn = "loadOneToken" /\ ret.done) =>
        LET rows == ret.val.rows
            rowTs == [i \in 1..Len(rows) |-> rows[i].ts]
            inTs == InRangeTs(call)
        IN /\ \A i \in 1..Len(rows) :
                 rowTs[i] >= call.startUnix /\ rowTs[i] <= call.endUnix
           /\ Len(rows) <= call.maxRows
           /\ Len(rows) = Min2(call.maxRows, Len(inTs))
           /\ \A i \in 1..Len(rows) : CountOf(rowTs, rowTs[i]) <= CountOf(inTs, rowTs[i])
           /\ \A j \in 1..Len(inTs) :
                 (\E i \in 1..Len(rows) : inTs[j] < rowTs[i])
                    => CountOf(rowTs, inTs[j]) = CountOf(inTs, inTs[j])
           /\ ~call.step.client10m =>
                 \A i \in 1..Len(rows) :
                    \E j \in 1..Len(call.raw) : call.raw[j] = rows[i]

\* Three candles sent latest first, all in the range, two rows asked for:
\* the rows are the two earliest.
C22_Witness ==
    /\ call.fn = "loadOneToken" /\ ret.done
    /\ ~call.step.client10m /\ call.maxRows = 2
    /\ call.startUnix = 0 /\ call.endUnix = 1200
    /\ Len(call.raw) = 3
    /\ call.raw[1].ts = 1200 /\ call.raw[2].ts = 600 /\ call.raw[3].ts = 60
    /\ Len(ret.val.rows) = 2
    /\ ret.val.rows[1] = call.raw[3] /\ ret.val.rows[2] = call.raw[2]

\* C23: in every dataset returned by loadOneToken the row timestamps are
\* strictly increasing (no two rows share a ts), whatever the order of the
\* candles the API returns and also when it repeats a timestamp, for native
\* and for client-aggregated steps.
C23_RowsStrictlyIncreasing ==
    (call.fn = "loadOneToken" /\ ret.done) =>
        \A i \in 1..Len(ret.val.rows) - 1 :
            ret.val.rows[i].ts < ret.val.rows[i + 1].ts

\* C24: for every step, maxRows in 1..1000 and range, the limit of the OHLCV
\* request is min(1000, max(maxRows * 10, ceil((endUnix - startUnix) / 60))
\* + 10) for the client-aggregated 10m step and min(1000, max(maxRows,
\* ceil((endUnix - startUnix) / stepSeconds)) + 5) for a native step, and so
\* lies between 1 and 1000.
C24_RequestLimit ==
    (call.fn = "loadOneToken" /\ ret.done) =>
        LET span == call.endUnix - call.startUnix
            ceil(a, b) == 0 - ((0 - a) \div b)
            rows == IF call.step.client10m THEN call.maxRows * 10 ELSE call.maxRows
            need == IF call.step.client10m THEN ceil(span, 60)
                    ELSE ceil(span, call.step.sec)
            margin == IF call.step.client10m THEN 10 ELSE 5
            want == (IF rows > need THEN rows ELSE need) + margin
        IN /\ ret.val.limit = IF want > 1000 THEN 1000 ELSE want
           /\ ret.val.limit >= 1 /\ ret.val.limit <= 1000

\* Two rows of one minute over a range of three minutes: 3 + 5 candles.
C24_Witness ==
    /\ call.fn = "loadOneToken" /\ ret.done
    /\ call.step = STEP_MAP["1m"] /\ call.maxRows = 2
    /\ call.endUnix - call.startUnix = 180
    /\ ret.val.limit = 8

\* C25: for every step and every maxRows in 1..1000 the candles requested
\* cover the whole range: the limit is at least the number of native candle
\* slots from startUnix to endUnix, at least maxRows * 10 one-minute candles
\* for the 10m step and at least maxRows candles for a native step.
C25_LimitCoversRange ==
    (call.fn = "loadOneToken" /\ ret.done
       /\ call.endUnix = EndUnix(call.startUnix, call.maxRows, call.step)) =>
        LET unit == IF call.step.client10m THEN 60 ELSE call.step.sec
            slots == ((call.endUnix - call.startUnix) \div unit) + 1
        IN /\ ret.val.limit >= slots
           /\ call.step.client10m => ret.val.limit >= call.maxRows * 10
           /\ ~call.step.client10m => ret.val.limit >= call.maxRows

\* C26: the launchTs of a dataset is the minimum parseable pool_created_at
\* over all pools included in the token response (not only the chosen
\* pool); if no included pool has a parseable creation date it is the chosen
\* pool's creation time when that is parseable, and null otherwise: always
\* null or a finite timestamp.
C26_LaunchIsEarliestPool ==
    (call.fn = "loadOneToken" /\ ret.done) =>
        LET pools == PoolsOf(call.tokenJson)
            dated == {e \in pools : e.pool_created_at.t = "date"}
            chosen == CHOOSE e \in pools : e.address = ret.val.pool
            launch == ret.val.launchTs
        IN /\ launch = Null \/ launch.d # 0
           /\ launch =
                IF dated # {}
                THEN Num((CHOOSE e \in dated :
                            \A o \in dated : e.pool_created_at.sec
                                                <= o.pool_created_at.sec
                         ).pool_created_at.sec)
                ELSE IF chosen.pool_created_at.t = "date"
                     THEN Num(chosen.pool_created_at.sec)
                     ELSE Null

\* ---- claims about the two chart paths ----

\* C27: for every dataset, every metric and every grid timestamp at which
\* the dataset has a row, the value projected by buildChartDataMulti equals
\* the value the single-token path (buildChartData, renderRows) computes for
\* that row with the same supply and launchTs, also when launchTs is null
\* or not finite (fee 10, breakeven breakevenMultiple(10)).
C27_PathsAgree ==
    \A key \in Range(page.chart.combinedKeys) :
      LET ds == page.datasets[key[1]]
          single == SingleTokenSeries(page, ds, <<key[2]>>)[key[2]]
      IN \A i \in 1..Len(page.chart.timeGrid) :
           \A j \in 1..Len(ds.rows) :
              ds.rows[j].ts = page.chart.timeGrid[i] =>
                 page.chart.seriesCombined[key][i] = single[j]

\* ---- claims about the view during and after loads ----

\* C30: the busy indicator (Load disabled, Stop enabled) is set exactly
\* while a load is in flight: from a load's first request until that load
\* reaches a terminal outcome; the end of an older, superseded load never
\* clears it while a newer load is still in flight.  (Observed between
\* events, once the pending promise reactions have run.)
C30_BusyWhileInFlight ==
    micro = <<>> => (els.busy <=> (\E l \in Loads : InFlight(l)))

\* buildChartDataMulti ran in the handler that produced the current state.
BuildRan ==
    \/ ev.kind = "toggle" /\ state.datasets # <<>>
    \/ ev.kind = "tab" /\ HasKey(state.datasets, ev.k)
    \/ ev.kind = "cont" /\ ev.ended /\ els.status.msg = "Done tokens"

\* C29: whenever buildChartDataMulti runs (from a finished load, a tab
\* click or a metric or token toggle), state.chart.timeGrid and every dataset
\* in state.datasets were produced by the same load; a tab click or toggle
\* that arrives while a compare-all load is in flight never projects the new
\* load's datasets onto the previous load's grid.
C29_GridAndDatasetsOfOneLoad ==
    BuildRan =>
        /\ \A d \in Range(state.datasets) : d[2] = state.chart.timeGrid
        /\ \A d \in Range(state.chart.combined.ds) :
              d[2] = state.chart.combined.grid

\* C28: whenever table rows are rendered (after a load, a tab switch or a
\* column-picker change), state.mcapSupply and state.launchTs are the supply
\* and launchTs of the dataset whose rows are rendered; no other event, in
\* particular no prefillStartFromLaunch request completing for a newly
\* selected strategy, changes state.launchTs while that dataset is displayed.
C28_TableUsesItsDataset ==
    LET ds == page.datasets[dom.tbody]
    IN /\ dom.calc = [supply |-> ds.supply, launchTs |-> ds.launchTs]
       /\ page.mcapSupply = ds.supply
       /\ page.launchTs = ds.launchTs

====
